---- MODULE Spec2Model ----
(***************************************************************************)
(* Truth Capsules: canonical digest, policy gate, sign tool, digest tool   *)
(* and witness aggregation, modelled from scripts/capsule_digest.py,       *)
(* scripts/capsule_policy_check.py, scripts/capsule_sign.py and            *)
(* scripts/run_witnesses.py.                                               *)
(*                                                                         *)
(* A YAML value is a tagged record:                                        *)
(*   [t |-> "null"]                 None                                   *)
(*   [t |-> "str",  v |-> "..."]    a string                               *)
(*   [t |-> "list", v |-> <<...>>]  a list of values                       *)
(*   [t |-> "map",  v |-> <<...>>]  a mapping: pairs <<key, value>> in the  *)
(*                                  document's key order, keys unique      *)
(* A capsule file holds either such a value (what yaml.safe_load returns)  *)
(* or [t |-> "unparsable"] (yaml.safe_load raises).                        *)
(***************************************************************************)
EXTENDS Integers, Sequences, FiniteSets, TLC

VARIABLES
    files,      \* the capsule directory: sequence of file contents, in sorted file-name order
    haveNacl,   \* whether "from nacl.signing import ..." succeeds on this installation
    last,       \* which tool ran last ("init", "edit", "digest", "sign", "gate", ...)
    gate,       \* output of the policy gate, when the step just taken ran it
    dtool,      \* output of the digest tool, when the step just taken ran it
    stool,      \* output of the sign tool, when the step just taken ran it
    hist,       \* history of the capsule lifecycle (what was digested / signed)
    cap,        \* digest study: the capsule document under edit
    edit,       \* digest study: the last edit applied to cap
    wits,       \* aggregation study: the witnesses of the capsule
    filt,       \* aggregation study: the witness_filter argument
    agg,        \* aggregation study: result of run_capsule_witnesses
    environ,    \* os.environ of the runner process: a set of <<name, value>> pairs
    tmpfiles,   \* number of witness temp files present in the temp directory
    call,       \* sandbox study: the last call of run_witness and its effects
    runner      \* runner study: the capsules, the command line and the outcome of main

vars == <<files, haveNacl, last, gate, dtool, stool, hist, cap, edit, wits, filt, agg,
          environ, tmpfiles, call, runner>>

----------------------------------------------------------------------------
(* YAML values and the dict operations the scripts use *)

Null == [t |-> "null"]
Str(s) == [t |-> "str", v |-> s]
Lst(s) == [t |-> "list", v |-> s]
Map(s) == [t |-> "map", v |-> s]
Unparsable == [t |-> "unparsable"]
EmptyMap == Map(<<>>)

IsMap(x) == x.t = "map"
IsList(x) == x.t = "list"

\* Python truthiness of a loaded value (the "x or {}" idiom).
Truthy(x) ==
    CASE x.t = "null" -> FALSE
      [] x.t = "str" -> x.v # ""
      [] OTHER -> x.v # <<>>

\* "x or {}"
OrEmptyMap(x) == IF Truthy(x) THEN x ELSE EmptyMap
\* "x or []"
OrEmptyList(x) == IF Truthy(x) THEN x ELSE Lst(<<>>)

KeysOf(m) == {m.v[i][1] : i \in 1..Len(m.v)}
HasKey(m, k) == k \in KeysOf(m)
\* m[k] for a key that is present
Lookup(m, k) == m.v[CHOOSE i \in 1..Len(m.v) : m.v[i][1] = k][2]
\* m.get(k): None when the key is absent
Get(m, k) == IF HasKey(m, k) THEN Lookup(m, k) ELSE Null
\* m.get(k, d)
GetOr(m, k, d) == IF HasKey(m, k) THEN Lookup(m, k) ELSE d
\* m[k] = x: an existing key keeps its position, a new key is appended
SetKey(m, k, x) ==
    IF HasKey(m, k)
    THEN Map([i \in 1..Len(m.v) |-> IF m.v[i][1] = k THEN <<k, x>> ELSE m.v[i]])
    ELSE Map(Append(m.v, <<k, x>>))

----------------------------------------------------------------------------
(* Canonical digest: capsule_digest.py *)

\* The key names that occur in the modelled documents, in the order Python's
\* sorted() gives them (code-point order).
KeyAlphabet ==
    <<"assumptions", "author", "digest", "domain", "id", "key_id", "kind",
      "method", "note", "pedagogy", "provenance", "pubkey", "review",
      "signature", "signing", "statement", "status", "text", "title",
      "version", "witnesses">>

\* The keys in document order: what a canonical_json that forgot to sort would use.
UnsortedKeys(m) == [i \in 1..Len(m.v) |-> m.v[i][1]]

\* sorted(obj.keys())
SortedKeys(m) == SelectSeq(KeyAlphabet, LAMBDA k : k \in KeysOf(m))

\* ",".join(parts)
RECURSIVE Join(_)
Join(parts) ==
    IF parts = <<>> THEN ""
    ELSE IF Len(parts) = 1 THEN parts[1]
    ELSE parts[1] \o "," \o Join(Tail(parts))

\* json.dumps of a scalar (ensure_ascii=False, compact separators): None is
\* null, a string is quoted. The modelled strings hold no character that
\* json.dumps escapes.
JsonDumps(x) == IF x.t = "null" THEN "null" ELSE "\"" \o x.v \o "\""

\* json.dumps(k) of a mapping key
JsonDumpsKey(k) == "\"" \o k \o "\""

RECURSIVE canonical_json(_)
canonical_json(obj) ==
    IF IsList(obj)
    THEN "[" \o Join([i \in 1..Len(obj.v) |-> canonical_json(obj.v[i])]) \o "]"
    ELSE IF IsMap(obj)
    THEN LET keys == SortedKeys(obj)
             pairs == [i \in 1..Len(keys) |->
                         JsonDumpsKey(keys[i]) \o ":" \o canonical_json(Lookup(obj, keys[i]))]
         IN "{" \o Join(pairs) \o "}"
    ELSE JsonDumps(obj)

\* [{"kind": p.get("kind"), "text": p.get("text")} for p in pedagogy if isinstance(p, dict)]
ReducePedagogy(items) ==
    LET dicts == SelectSeq(items, IsMap)
    IN [i \in 1..Len(dicts) |->
          Map(<< <<"kind", Get(dicts[i], "kind")>>, <<"text", Get(dicts[i], "text")>> >>)]

\* A core that leaves the title out.
core_without_title(capsule) ==
    LET p0 == OrEmptyList(Get(capsule, "pedagogy"))
        pedagogy == IF IsList(p0) THEN Lst(ReducePedagogy(p0.v)) ELSE Lst(<<>>)
        a0 == Get(capsule, "assumptions")
    IN Map(<< <<"id", Get(capsule, "id")>>,
              <<"version", Get(capsule, "version")>>,
              <<"domain", Get(capsule, "domain")>>,
              <<"statement", Get(capsule, "statement")>>,
              <<"assumptions", IF IsList(a0) THEN a0 ELSE Lst(<<>>)>>,
              <<"pedagogy", pedagogy>> >>)

core_for_digest(capsule) ==
    LET p0 == OrEmptyList(Get(capsule, "pedagogy"))
        pedagogy == IF IsList(p0) THEN Lst(ReducePedagogy(p0.v)) ELSE Lst(<<>>)
        a0 == Get(capsule, "assumptions")
    IN Map(<< <<"id", Get(capsule, "id")>>,
              <<"version", Get(capsule, "version")>>,
              <<"domain", Get(capsule, "domain")>>,
              <<"title", Get(capsule, "title")>>,
              <<"statement", Get(capsule, "statement")>>,
              <<"assumptions", IF IsList(a0) THEN a0 ELSE Lst(<<>>)>>,
              <<"pedagogy", pedagogy>> >>)

\* hashlib.sha256(s.encode("utf-8")).hexdigest(), taken as injective: the hex
\* digest of s is written sha256(s).
Sha256Hex(s) == "sha256(" \o s \o ")"

calculate_digest(capsule) == Sha256Hex(canonical_json(core_for_digest(capsule)))

----------------------------------------------------------------------------
(* Ed25519 and base64, as the scripts use them (nacl.signing, base64) *)

\* The signing keys that exist. Each is named by its seed.
Keys == {"k1", "k2"}

\* base64 text of the private seed of key k (the sign tool's --key)
SeedB64(k) == "b64(seed:" \o k \o ")"
\* base64 text of the public key of key k
PubB64(k) == "b64(pub:" \o k \o ")"
\* base64.b64encode(SigningKey(k).sign(msg).signature): Ed25519 signatures are
\* deterministic, so the signature of msg under k is one value.
SigB64(k, msg) == "b64(sig:" \o k \o ":" \o msg \o ")"

\* VerifyKey(b64decode(pub)).verify(msg, b64decode(sig)) returns without raising.
\* Anything that is not the base64 text of a public key, or of the signature of
\* exactly msg under the matching private key, raises.
Ed25519Verifies(pub, msg, sig) ==
    /\ pub.t = "str"
    /\ sig.t = "str"
    /\ \E k \in Keys : pub.v = PubB64(k) /\ sig.v = SigB64(k, msg)

----------------------------------------------------------------------------
(* Policy gate: capsule_policy_check.py *)

RECURSIVE gate_canonical_json(_)
gate_canonical_json(obj) ==
    IF IsList(obj)
    THEN "[" \o Join([i \in 1..Len(obj.v) |-> gate_canonical_json(obj.v[i])]) \o "]"
    ELSE IF IsMap(obj)
    THEN LET keys == SortedKeys(obj)
             pairs == [i \in 1..Len(keys) |->
                         JsonDumpsKey(keys[i]) \o ":" \o gate_canonical_json(Lookup(obj, keys[i]))]
         IN "{" \o Join(pairs) \o "}"
    ELSE JsonDumps(obj)

norm_capsule_for_digest(c) ==
    LET p0 == OrEmptyList(Get(c, "pedagogy"))
        pedagogy == IF IsList(p0) THEN Lst(ReducePedagogy(p0.v)) ELSE Lst(<<>>)
        a0 == Get(c, "assumptions")
        core == Map(<< <<"id", Get(c, "id")>>,
                       <<"version", Get(c, "version")>>,
                       <<"domain", Get(c, "domain")>>,
                       <<"title", Get(c, "title")>>,
                       <<"statement", Get(c, "statement")>>,
                       <<"assumptions", IF IsList(a0) THEN a0 ELSE Lst(<<>>)>>,
                       <<"pedagogy", pedagogy>> >>)
    IN Sha256Hex(gate_canonical_json(core))

\* A gate whose digest step lets an absent digest through.
GateDigestDiffersLax(ps, dig) == HasKey(ps, "digest") /\ Get(ps, "digest") # Str(dig)

\* A gate whose digest step only asks that a digest is stored.
GateDigestDiffersPresence(ps, dig) == ~Truthy(Get(ps, "digest"))

\* Line 71: ps.get("digest") != dig
GateDigestDiffers(ps, dig) == Get(ps, "digest") # Str(dig)

\* A gate that asks for the signature of an approved capsule in every mode.
GateNeedsSignatureAlways(strict, status) == status = Str("approved")

\* A gate that never asks for a signature.
GateNeedsSignatureNever(strict, status) == FALSE

\* Line 76: args.require_signature_on_approved and status == "approved"
GateNeedsSignature(strict, status) == strict /\ status = Str("approved")

\* A gate whose except clause lets a failed verification through.
GateVerifiesAnything(pub, dig, sig) == TRUE

\* Line 87: the message verified is dig.encode("utf-8")
GateVerifies(pub, dig, sig) == Ed25519Verifies(pub, dig, sig)

\* The body of the for loop (lines 59-91) for one file. The result names how
\* the iteration ended and whether VerifyKey(...).verify was called:
\*   parse_error      yaml.safe_load raised        errors += 1
\*   crash            an exception left main()     (nothing is caught after line 65)
\*   digest_mismatch  line 71                      checked += 1, errors += 1
\*   no_verifier      line 77                      checked += 1, errors += 1
\*   missing_sig      line 82                      checked += 1, errors += 1
\*   bad_signature    line 88                      checked += 1, errors += 1
\*   pass             the end of the body          checked += 1
GateFile(content, strict, nacl) ==
    IF content.t = "unparsable" THEN [outcome |-> "parse_error", sigTried |-> FALSE]
    ELSE
    LET c == OrEmptyMap(content)
    IN IF ~IsMap(c) THEN [outcome |-> "crash", sigTried |-> FALSE]
    ELSE
    LET dig == norm_capsule_for_digest(c)
        prov == OrEmptyMap(Get(c, "provenance"))
    IN IF ~IsMap(prov) THEN [outcome |-> "crash", sigTried |-> FALSE]
    ELSE
    LET ps == OrEmptyMap(Get(prov, "signing"))
        rv == OrEmptyMap(Get(prov, "review"))
    IN IF ~IsMap(rv) \/ ~IsMap(ps) THEN [outcome |-> "crash", sigTried |-> FALSE]
    ELSE
    LET status == GetOr(rv, "status", Str("draft"))
        sig == Get(ps, "signature")
        pub == Get(ps, "pubkey")
    IN IF GateDigestDiffers(ps, dig)
       THEN [outcome |-> "digest_mismatch", sigTried |-> FALSE]
       ELSE IF ~GateNeedsSignature(strict, status)
       THEN [outcome |-> "pass", sigTried |-> FALSE]
       ELSE IF ~nacl
       THEN [outcome |-> "no_verifier", sigTried |-> FALSE]
       ELSE IF ~Truthy(sig) \/ ~Truthy(pub)
       THEN [outcome |-> "missing_sig", sigTried |-> FALSE]
       ELSE IF GateVerifies(pub, dig, sig)
       THEN [outcome |-> "pass", sigTried |-> TRUE]
       ELSE [outcome |-> "bad_signature", sigTried |-> TRUE]

GateErrorOutcomes == {"parse_error", "digest_mismatch", "no_verifier", "missing_sig", "bad_signature"}

\* A gate that forgets to count a digest mismatch.
GateErrorsAddNoMismatch(outcome) ==
    IF outcome \in GateErrorOutcomes \ {"digest_mismatch"} THEN 1 ELSE 0

\* errors += 1 on the paths that count a failing file
GateErrorsAdd(outcome) == IF outcome \in GateErrorOutcomes THEN 1 ELSE 0

\* checked += 1 (line 66): every file whose YAML loaded
GateCheckedAdd(outcome) == IF outcome = "parse_error" THEN 0 ELSE 1

\* sys.exit(1 if errors else 0)
GateExit(errors) == IF errors # 0 THEN 1 ELSE 0

\* main(): the loop over sorted(os.listdir(path)), then the summary line and
\* the exit code. An exception that leaves the loop ends the process with a
\* traceback: exit status 1, no summary line, the later files never read.
RECURSIVE GateLoop(_, _, _, _, _)
GateLoop(fs, i, strict, nacl, acc) ==
    IF i > Len(fs)
    THEN [acc EXCEPT !.summary = TRUE, !.exit = GateExit(acc.errors)]
    ELSE LET r == GateFile(fs[i], strict, nacl)
             acc1 == [acc EXCEPT !.outcomes = Append(@, r.outcome),
                                 !.sigTried = Append(@, r.sigTried),
                                 !.checked = @ + GateCheckedAdd(r.outcome),
                                 !.errors = @ + GateErrorsAdd(r.outcome)]
         IN IF r.outcome = "crash"
            THEN [acc1 EXCEPT !.crashed = TRUE, !.exit = 1]
            ELSE GateLoop(fs, i + 1, strict, nacl, acc1)

PolicyGate(fs, strict, nacl) ==
    GateLoop(fs, 1, strict, nacl,
             [ran |-> TRUE, strict |-> strict, outcomes |-> <<>>, sigTried |-> <<>>,
              checked |-> 0, errors |-> 0, crashed |-> FALSE, summary |-> FALSE,
              exit |-> 0])

NoGateRun ==
    [ran |-> FALSE, strict |-> FALSE, outcomes |-> <<>>, sigTried |-> <<>>,
     checked |-> 0, errors |-> 0, crashed |-> FALSE, summary |-> FALSE, exit |-> 0]

----------------------------------------------------------------------------
(* Verifier: capsule_verify.py *)

\* ", ".join(parts): the item separator json.dumps uses by default
RECURSIVE JoinDefault(_)
JoinDefault(parts) ==
    IF parts = <<>> THEN ""
    ELSE IF Len(parts) = 1 THEN parts[1]
    ELSE parts[1] \o ", " \o JoinDefault(Tail(parts))

\* json.dumps(obj, sort_keys=True, ensure_ascii=False): no separators are
\* given, so items are joined by ", " and a key is followed by ": ".
RECURSIVE json_dumps_sorted(_)
json_dumps_sorted(obj) ==
    IF IsList(obj)
    THEN "[" \o JoinDefault([i \in 1..Len(obj.v) |-> json_dumps_sorted(obj.v[i])]) \o "]"
    ELSE IF IsMap(obj)
    THEN LET keys == SortedKeys(obj)
             pairs == [i \in 1..Len(keys) |->
                         JsonDumpsKey(keys[i]) \o ": " \o json_dumps_sorted(Lookup(obj, keys[i]))]
         IN "{" \o JoinDefault(pairs) \o "}"
    ELSE JsonDumps(obj)

\* norm(c), lines 10-16. The comprehension calls p.get on every item of
\* "pedagogy or []": it raises on an item that is not a mapping and on a
\* pedagogy that is a non-empty string; "assumptions or []" keeps a truthy
\* value of any type.
norm(c) ==
    LET p0 == OrEmptyList(Get(c, "pedagogy"))
        a0 == OrEmptyList(Get(c, "assumptions"))
    IN IF ~IsMap(c) THEN [raised |-> TRUE, digest |-> ""]
       ELSE IF ~(IsList(p0) \/ IsMap(p0)) THEN [raised |-> TRUE, digest |-> ""]
       ELSE IF IsList(p0) /\ \E i \in 1..Len(p0.v) : ~IsMap(p0.v[i])
       THEN [raised |-> TRUE, digest |-> ""]
       ELSE IF IsMap(p0) THEN [raised |-> TRUE, digest |-> ""]
       ELSE LET core == Map(<< <<"id", Get(c, "id")>>,
                               <<"version", Get(c, "version")>>,
                               <<"domain", Get(c, "domain")>>,
                               <<"title", Get(c, "title")>>,
                               <<"statement", Get(c, "statement")>>,
                               <<"assumptions", a0>>,
                               <<"pedagogy", Lst(ReducePedagogy(p0.v))>> >>)
            IN [raised |-> FALSE, digest |-> Sha256Hex(json_dumps_sorted(core))]

\* Lines 25-28: "[digest-mismatch]" is printed for the file
VerifyReportsMismatch(c) ==
    LET dig == norm(c)
        s == OrEmptyMap(Get(OrEmptyMap(Get(c, "provenance")), "signing"))
    IN ~dig.raised /\ Get(s, "digest") # Str(dig.digest)

----------------------------------------------------------------------------
(* Digest tool: capsule_digest.py, update_capsule_digest / process_directory / main *)

\* A store that fills in a missing digest and leaves a present one alone.
StoreDigestOnlyWhenMissing(capsule, new_digest) ==
    LET c1 == IF HasKey(capsule, "provenance") THEN capsule
              ELSE SetKey(capsule, "provenance", EmptyMap)
        prov == Lookup(c1, "provenance")
    IN IF ~IsMap(prov) THEN [crash |-> TRUE, doc |-> capsule]
       ELSE LET p1 == IF HasKey(prov, "signing") THEN prov
                      ELSE SetKey(prov, "signing", EmptyMap)
                sg == Lookup(p1, "signing")
            IN IF ~IsMap(sg) THEN [crash |-> TRUE, doc |-> capsule]
               ELSE IF HasKey(sg, "digest") THEN [crash |-> FALSE, doc |-> capsule]
               ELSE [crash |-> FALSE,
                     doc |-> SetKey(c1, "provenance",
                                    SetKey(p1, "signing", SetKey(sg, "digest", Str(new_digest))))]

\* Lines 129-135: make sure provenance.signing exists, then store the digest.
\* "crash" when a subscript or an "in" test meets a value that is not a mapping.
StoreDigest(capsule, new_digest) ==
    LET c1 == IF HasKey(capsule, "provenance") THEN capsule
              ELSE SetKey(capsule, "provenance", EmptyMap)
        prov == Lookup(c1, "provenance")
    IN IF ~IsMap(prov) THEN [crash |-> TRUE, doc |-> capsule]
       ELSE LET p1 == IF HasKey(prov, "signing") THEN prov
                      ELSE SetKey(prov, "signing", EmptyMap)
                sg == Lookup(p1, "signing")
            IN IF ~IsMap(sg) THEN [crash |-> TRUE, doc |-> capsule]
               ELSE [crash |-> FALSE,
                     doc |-> SetKey(c1, "provenance",
                                    SetKey(p1, "signing", SetKey(sg, "digest", Str(new_digest))))]

\* update_capsule_digest(filepath, verify_only). wfail: opening or writing the
\* file for the write-back raises. The result carries the record returned
\* (status, updated), whether an exception left the function, and the file's
\* content afterwards.
update_capsule_digest(content, verify_only, wfail) ==
    IF content.t = "unparsable" \/ ~IsMap(content)
    THEN [status |-> "error", updated |-> FALSE, crash |-> FALSE, content |-> content]
    ELSE
    LET new_digest == calculate_digest(content)
        provenance == OrEmptyMap(Get(content, "provenance"))
    IN IF ~IsMap(provenance)
       THEN [status |-> "crash", updated |-> FALSE, crash |-> TRUE, content |-> content]
    ELSE
    LET signing == OrEmptyMap(Get(provenance, "signing"))
    IN IF ~IsMap(signing)
       THEN [status |-> "crash", updated |-> FALSE, crash |-> TRUE, content |-> content]
    ELSE
    LET old_digest == Get(signing, "digest")
        status == IF old_digest = Str(new_digest) THEN "ok"
                  ELSE IF old_digest = Null THEN "missing"
                  ELSE "mismatch"
    IN IF status = "ok" \/ verify_only
       THEN [status |-> status, updated |-> FALSE, crash |-> FALSE, content |-> content]
       ELSE LET st == StoreDigest(content, new_digest)
            IN IF st.crash
               THEN [status |-> "crash", updated |-> FALSE, crash |-> TRUE, content |-> content]
               ELSE IF wfail
               THEN [status |-> "error", updated |-> FALSE, crash |-> FALSE, content |-> content]
               ELSE [status |-> "updated", updated |-> TRUE, crash |-> FALSE, content |-> st.doc]

\* main(): sys.exit codes of lines 266-271 from the result records
DigestExit(results, verify) ==
    LET n(st) == Cardinality({i \in 1..Len(results) : results[i].status = st})
    IN IF verify
       THEN (IF n("mismatch") > 0 \/ n("error") > 0 THEN 1 ELSE 0)
       ELSE (IF n("error") > 0 THEN 1 ELSE 0)

\* process_directory + main over the files in sorted order. An exception that
\* leaves update_capsule_digest ends the process (exit status 1); the files
\* before it have been written, the later ones are not read.
RECURSIVE DigestLoop(_, _, _, _, _)
DigestLoop(fs, i, verify, wfail, acc) ==
    IF i > Len(fs)
    THEN [acc EXCEPT !.exit = DigestExit(acc.results, verify)]
    ELSE LET r == update_capsule_digest(fs[i], verify, wfail)
             acc1 == [acc EXCEPT !.results = Append(@, [status |-> r.status, updated |-> r.updated]),
                                 !.files = [@ EXCEPT ![i] = r.content]]
         IN IF r.crash
            THEN [acc1 EXCEPT !.crashed = TRUE, !.exit = 1]
            ELSE DigestLoop(fs, i + 1, verify, wfail, acc1)

DigestTool(fs, verify, wfail) ==
    DigestLoop(fs, 1, verify, wfail,
               [ran |-> TRUE, verify |-> verify, results |-> <<>>, files |-> fs,
                crashed |-> FALSE, exit |-> 0])

NoDigestRun ==
    [ran |-> FALSE, verify |-> FALSE, results |-> <<>>, crashed |-> FALSE, exit |-> 0]

----------------------------------------------------------------------------
(* Sign tool: capsule_sign.py *)

\* The --key argument: the base64 seed of a key, or text that SigningKey rejects.
IsSeed(key) == \E k \in Keys : key = SeedB64(k)
KeyOfSeed(key) == CHOOSE k \in Keys : key = SeedB64(k)

\* A sign tool that signs something other than the stored digest string.
SignMessageOther(digest) == "doc:" \o digest

\* Line 30: sk.sign(digest).signature, digest being the stored digest string
SignMessage(digest) == digest

\* The body of the for loop (lines 20-37) for one file:
\*   crash     an exception left main() (nothing is caught)
\*   skip      "[skip] no digest"
\*   warn      "[warn] pynacl not installed"
\*   signed    the file was rewritten with the signature
\* pub = "" stands for an absent --pub.
\* A sign tool that writes a new signing block instead of adding to the one
\* it read.
SignFileFreshBlock(content, key, key_id, pub, nacl) ==
    IF content.t = "unparsable" \/ ~IsMap(content)
    THEN [res |-> "crash", content |-> content]
    ELSE
    LET prov == OrEmptyMap(Get(content, "provenance"))
    IN IF ~IsMap(prov) THEN [res |-> "crash", content |-> content]
    ELSE
    LET s == OrEmptyMap(Get(prov, "signing"))
    IN IF ~IsMap(s) THEN [res |-> "crash", content |-> content]
    ELSE
    LET d == Get(s, "digest")
    IN IF ~Truthy(d) THEN [res |-> "skip", content |-> content]
       ELSE IF d.t # "str" THEN [res |-> "crash", content |-> content]
       ELSE IF ~nacl THEN [res |-> "warn", content |-> content]
       ELSE IF ~IsSeed(key) THEN [res |-> "crash", content |-> content]
       ELSE
       LET sig == SigB64(KeyOfSeed(key), SignMessage(d.v))
           s1 == SetKey(EmptyMap, "signature", Str(sig))
           s2 == SetKey(s1, "method", Str("ed25519"))
           s3 == SetKey(s2, "key_id", Str(key_id))
           s4 == IF pub # "" THEN SetKey(s3, "pubkey", Str(pub)) ELSE s3
       IN [res |-> "signed",
           content |-> SetKey(content, "provenance", SetKey(prov, "signing", s4))]

SignFile(content, key, key_id, pub, nacl) ==
    IF content.t = "unparsable" \/ ~IsMap(content)
    THEN [res |-> "crash", content |-> content]
    ELSE
    LET prov == OrEmptyMap(Get(content, "provenance"))
    IN IF ~IsMap(prov) THEN [res |-> "crash", content |-> content]
    ELSE
    LET s == OrEmptyMap(Get(prov, "signing"))
    IN IF ~IsMap(s) THEN [res |-> "crash", content |-> content]
    ELSE
    LET d == Get(s, "digest")
    IN IF ~Truthy(d) THEN [res |-> "skip", content |-> content]
       ELSE IF d.t # "str" THEN [res |-> "crash", content |-> content]
       ELSE IF ~nacl THEN [res |-> "warn", content |-> content]
       ELSE IF ~IsSeed(key) THEN [res |-> "crash", content |-> content]
       ELSE
       LET sig == SigB64(KeyOfSeed(key), SignMessage(d.v))
           s1 == SetKey(s, "signature", Str(sig))
           s2 == SetKey(s1, "method", Str("ed25519"))
           s3 == SetKey(s2, "key_id", Str(key_id))
           s4 == IF pub # "" THEN SetKey(s3, "pubkey", Str(pub)) ELSE s3
       IN [res |-> "signed",
           content |-> SetKey(content, "provenance", SetKey(prov, "signing", s4))]

\* main(): the loop over os.listdir(path), taken here in the order of fs.
RECURSIVE SignLoop(_, _, _, _, _, _, _)
SignLoop(fs, i, key, key_id, pub, nacl, acc) ==
    IF i > Len(fs)
    THEN acc
    ELSE LET r == SignFile(fs[i], key, key_id, pub, nacl)
             acc1 == [acc EXCEPT !.results = Append(@, r.res),
                                 !.files = [@ EXCEPT ![i] = r.content]]
         IN IF r.res = "crash"
            THEN [acc1 EXCEPT !.crashed = TRUE, !.exit = 1]
            ELSE SignLoop(fs, i + 1, key, key_id, pub, nacl, acc1)

SignTool(fs, key, key_id, pub, nacl) ==
    SignLoop(fs, 1, key, key_id, pub, nacl,
             [ran |-> TRUE, results |-> <<>>, files |-> fs, crashed |-> FALSE, exit |-> 0])

NoSignRun == [ran |-> FALSE, results |-> <<>>, crashed |-> FALSE, exit |-> 0]

----------------------------------------------------------------------------
(* Capsule documents of the lifecycle study *)

Statements == {"A", "B"}
ReviewStatuses == {"draft", "approved"}

\* A capsule as authored: a draft with no provenance.signing block.
Capsule(stmt) ==
    Map(<< <<"id", Str("c1")>>,
           <<"version", Str("1.0.0")>>,
           <<"domain", Str("qa")>>,
           <<"title", Str("T")>>,
           <<"statement", Str(stmt)>>,
           <<"assumptions", Lst(<<Str("x")>>)>>,
           <<"pedagogy", Lst(<<Map(<< <<"kind", Str("socratic")>>, <<"text", Str("why")>> >>)>>)>> >>)

WithProvenance(doc, prov) == SetKey(doc, "provenance", prov)

\* The same capsule after the digest tool and the sign tool of another
\* installation have run on it (key k, --pub of key kp).
SignedElsewhere(stmt, k, kp) ==
    LET d == update_capsule_digest(
                 WithProvenance(Capsule(stmt),
                     Map(<< <<"review", Map(<< <<"status", Str("approved")>> >>)>> >>)),
                 FALSE, FALSE).content
    IN SignFile(d, SeedB64(k), "demo", PubB64(kp), TRUE).content

\* File contents a capsule directory can hold that are not in the data
\* model's shape.
MalformedDocs ==
    { Unparsable,
      Null,
      Lst(<<Str("x")>>),
      WithProvenance(Capsule("A"), Null),
      WithProvenance(Capsule("A"), Str("someone")),
      WithProvenance(Capsule("A"), Map(<< <<"signing", Null>> >>)),
      WithProvenance(Capsule("A"), Map(<< <<"signing", Str("none")>> >>)),
      WithProvenance(Capsule("A"), Map(<< <<"review", Str("approved")>> >>)) }

LifecycleInitDocs ==
    { Capsule("A"),
      WithProvenance(Capsule("A"), Map(<< <<"author", Str("me")>> >>)),
      SignedElsewhere("A", "k1", "k1") }
    \cup MalformedDocs

----------------------------------------------------------------------------
(* Lifecycle study: one directory, the author, the reviewer and the tools *)

NoHist == [phase |-> "new", stmt |-> Null, sealed |-> FALSE]

\* The witness runner has not been used.
SandboxIdle ==
    /\ environ = {}
    /\ tmpfiles = 0
    /\ call = [n |-> 0]
    /\ runner = [ran |-> FALSE]

StudyIdle ==
    /\ SandboxIdle
    /\ cap = Null
    /\ edit = [n |-> 0]
    /\ wits = <<>>
    /\ filt = {}
    /\ agg = [ran |-> FALSE]

Init ==
    /\ \E d \in LifecycleInitDocs : files = <<d>>
    /\ haveNacl \in BOOLEAN
    /\ last = "init"
    /\ gate = NoGateRun
    /\ dtool = NoDigestRun
    /\ stool = NoSignRun
    /\ hist = <<NoHist>>
    /\ StudyIdle

\* The author edits the statement of capsule f (a semantic-core field).
EditStatement(f, s) ==
    /\ IsMap(files[f])
    /\ Get(files[f], "statement") # Str(s)
    /\ files' = [files EXCEPT ![f] = SetKey(@, "statement", Str(s))]
    /\ hist' = [hist EXCEPT ![f].phase =
                    CASE @ = "signed" -> "edited"
                      [] @ = "edited" -> "edited"
                      [] @ = "new" -> "new"
                      [] OTHER -> "other",
                  ![f].sealed = FALSE]
    /\ last' = "edit"
    /\ gate' = NoGateRun /\ dtool' = NoDigestRun /\ stool' = NoSignRun
    /\ UNCHANGED <<haveNacl, cap, edit, wits, filt, agg, environ, tmpfiles, call, runner>>

\* The reviewer sets provenance.review.status of capsule f.
SetReviewStatus(f, st) ==
    /\ IsMap(files[f])
    /\ LET prov == OrEmptyMap(Get(files[f], "provenance"))
       IN /\ IsMap(prov)
          /\ IsMap(OrEmptyMap(Get(prov, "review")))
          /\ Get(OrEmptyMap(Get(prov, "review")), "status") # Str(st)
          /\ files' = [files EXCEPT ![f] =
                 SetKey(@, "provenance",
                        SetKey(prov, "review",
                               SetKey(OrEmptyMap(Get(prov, "review")), "status", Str(st))))]
    /\ last' = "review"
    /\ gate' = NoGateRun /\ dtool' = NoDigestRun /\ stool' = NoSignRun
    /\ UNCHANGED <<haveNacl, hist, cap, edit, wits, filt, agg, environ, tmpfiles, call, runner>>

\* capsule_digest.py <dir> [--verify]
\* A command that does not hand --verify on to process_directory.
RunDigestToolDropsVerify(verify, wfail) ==
    LET r == DigestTool(files, FALSE, wfail)
    IN /\ files' = r.files
       /\ dtool' = [ran |-> TRUE, verify |-> verify, results |-> r.results,
                    crashed |-> r.crashed, exit |-> r.exit]
       /\ hist' = hist
       /\ last' = "digest"
       /\ gate' = NoGateRun /\ stool' = NoSignRun
       /\ UNCHANGED <<haveNacl, cap, edit, wits, filt, agg, environ, tmpfiles, call, runner>>

\* capsule_digest.py <dir> [--verify]
RunDigestTool(verify, wfail) ==
    LET r == DigestTool(files, verify, wfail)
    IN /\ files' = r.files
       /\ dtool' = [ran |-> TRUE, verify |-> verify, results |-> r.results,
                    crashed |-> r.crashed, exit |-> r.exit]
       /\ hist' = [f \in DOMAIN hist |->
                     IF f <= Len(r.results) /\ r.results[f].status = "updated"
                     THEN [phase |-> "stored", stmt |-> Get(r.files[f], "statement"),
                           sealed |-> FALSE]
                     ELSE hist[f]]
       /\ last' = "digest"
       /\ gate' = NoGateRun /\ stool' = NoSignRun
       /\ UNCHANGED <<haveNacl, cap, edit, wits, filt, agg, environ, tmpfiles, call, runner>>

SignKeyArgs == {SeedB64("k1"), "not-a-key"}
SignPubArgs == {PubB64(k) : k \in Keys} \cup {"", "not-a-pubkey"}

\* capsule_sign.py <dir> --key KEY [--pub PUB]
RunSignTool(key, pub) ==
    LET r == SignTool(files, key, "demo", pub, haveNacl)
    IN /\ files' = r.files
       /\ stool' = [ran |-> TRUE, results |-> r.results,
                    crashed |-> r.crashed, exit |-> r.exit]
       /\ hist' = [f \in DOMAIN hist |->
                     IF f <= Len(r.results) /\ r.results[f] = "signed"
                     THEN [hist[f] EXCEPT
                             !.phase = IF @ \in {"stored", "signed"} THEN "signed" ELSE "other",
                             !.sealed = /\ hist[f].phase \in {"stored", "signed"}
                                        /\ pub = PubB64(KeyOfSeed(key))]
                     ELSE hist[f]]
       /\ last' = "sign"
       /\ gate' = NoGateRun /\ dtool' = NoDigestRun
       /\ UNCHANGED <<haveNacl, cap, edit, wits, filt, agg, environ, tmpfiles, call, runner>>

\* capsule_policy_check.py <dir> [--require-signature-on-approved]
RunGate(strict) ==
    /\ gate' = PolicyGate(files, strict, haveNacl)
    /\ last' = "gate"
    /\ dtool' = NoDigestRun /\ stool' = NoSignRun
    /\ UNCHANGED <<files, haveNacl, hist, cap, edit, wits, filt, agg, environ, tmpfiles, call, runner>>

Next ==
    \/ \E f \in DOMAIN files, s \in Statements : EditStatement(f, s)
    \/ \E f \in DOMAIN files, st \in ReviewStatuses : SetReviewStatus(f, st)
    \/ \E verify \in BOOLEAN, wfail \in BOOLEAN : RunDigestTool(verify, wfail)
    \/ \E key \in SignKeyArgs, pub \in SignPubArgs : RunSignTool(key, pub)
    \/ \E strict \in BOOLEAN : RunGate(strict)

Spec == Init /\ [][Next]_vars

----------------------------------------------------------------------------
(* What the claims say of a capsule document, read off the document itself *)

\* The value at provenance.signing.<k>, None when a step of the path is absent.
SigningField(doc, k) ==
    LET prov == Get(doc, "provenance")
        sg == IF IsMap(prov) THEN Get(prov, "signing") ELSE Null
    IN IF IsMap(sg) THEN Get(sg, k) ELSE Null

\* provenance.review.status, "draft" when absent.
ReviewStatusOf(doc) ==
    LET prov == Get(doc, "provenance")
        rv == IF IsMap(prov) THEN Get(prov, "review") ELSE Null
    IN IF IsMap(rv) THEN GetOr(rv, "status", Str("draft")) ELSE Str("draft")

\* The document has the data model's shape: a mapping (an empty file is the
\* empty mapping) whose provenance, signing and review are each absent, null
\* or a mapping.
ShapeOk(x) == x.t = "null" \/ x.t = "map"
IsCapsule(content) ==
    /\ content.t \in {"null", "map"}
    /\ LET doc == OrEmptyMap(content)
           prov == Get(doc, "provenance")
       IN /\ ShapeOk(prov)
          /\ IsMap(prov) => ShapeOk(Get(prov, "signing")) /\ ShapeOk(Get(prov, "review"))

DigestMatches(content) ==
    LET doc == OrEmptyMap(content)
    IN SigningField(doc, "digest") = Str(calculate_digest(doc))

SignatureVerifies(content) ==
    LET doc == OrEmptyMap(content)
    IN /\ Truthy(SigningField(doc, "signature"))
       /\ Truthy(SigningField(doc, "pubkey"))
       /\ Ed25519Verifies(SigningField(doc, "pubkey"), calculate_digest(doc),
                          SigningField(doc, "signature"))

IsApproved(content) == ReviewStatusOf(OrEmptyMap(content)) = Str("approved")

ClearedDigestStep(outcome) == outcome \in {"pass", "no_verifier", "missing_sig", "bad_signature"}

\* The capsules the gate run of the step just taken has processed.
GateProcessed == IF last = "gate" THEN 1..Len(gate.outcomes) ELSE {}

----------------------------------------------------------------------------
(* C1: for every capsule the gate processes, in either mode and whatever its
   review status, the capsule clears the digest step iff the stored
   provenance.signing.digest equals the digest recomputed from its semantic
   core; otherwise it is counted as failed with "digest mismatch", the
   iteration ends there and VerifyKey.verify is not called for it. *)
C1_DigestStep ==
    \A f \in GateProcessed :
        IsCapsule(files[f]) =>
            /\ ClearedDigestStep(gate.outcomes[f]) <=> DigestMatches(files[f])
            /\ ~DigestMatches(files[f]) =>
                  /\ gate.outcomes[f] = "digest_mismatch"
                  /\ ~gate.sigTried[f]
                  /\ gate.errors >= 1
                  /\ gate.exit = 1

\* A strict run on an approved, signed capsule whose statement was edited after
\* the digest was stored: the gate stops at the digest step.
C1_Witness ==
    /\ last = "gate" /\ gate.strict
    /\ IsCapsule(files[1]) /\ IsApproved(files[1])
    /\ Truthy(SigningField(files[1], "signature"))
    /\ Truthy(SigningField(files[1], "digest"))
    /\ ~DigestMatches(files[1])
    /\ gate.outcomes[1] = "digest_mismatch"

(* C2: in strict mode an approved capsule whose digest matches passes iff
   signature and pubkey are both present and the Ed25519 verification of the
   signature over the digest string with that pubkey succeeds (which needs the
   verifier to be importable); every other case is a counted failure of that
   capsule, never a pass and never an exception leaving the gate. *)
C2_StrictApproved ==
    \A f \in GateProcessed :
        (IsCapsule(files[f]) /\ gate.strict /\ IsApproved(files[f]) /\ DigestMatches(files[f])) =>
            /\ gate.outcomes[f] = "pass" <=> (haveNacl /\ SignatureVerifies(files[f]))
            /\ gate.outcomes[f] # "pass" =>
                  /\ gate.outcomes[f] \in {"no_verifier", "missing_sig", "bad_signature"}
                  /\ gate.errors >= 1
            /\ ~gate.crashed

\* A strict run that rejects an approved capsule whose signature is present
\* and whose pubkey belongs to another key.
C2_Witness ==
    /\ last = "gate" /\ gate.strict /\ haveNacl
    /\ IsCapsule(files[1])
    /\ IsApproved(files[1]) /\ DigestMatches(files[1])
    /\ SigningField(files[1], "signature") = Str(SigB64("k1", calculate_digest(files[1])))
    /\ SigningField(files[1], "pubkey") = Str(PubB64("k2"))
    /\ gate.outcomes[1] = "bad_signature"

(* C3: when strict mode is off, or the review status is not approved (an
   absent status reads as draft), the gate passes the capsule on digest match
   alone: signature and pubkey are not looked at. *)
C3_DigestOnly ==
    \A f \in GateProcessed :
        (IsCapsule(files[f]) /\ (~gate.strict \/ ~IsApproved(files[f]))) =>
            /\ gate.outcomes[f] = "pass" <=> DigestMatches(files[f])
            /\ ~gate.sigTried[f]
            /\ gate.outcomes[f] \in {"pass", "digest_mismatch"}

\* A non-strict run passes an approved capsule that carries no signature.
C3_Witness ==
    /\ last = "gate" /\ ~gate.strict
    /\ IsCapsule(files[1])
    /\ IsApproved(files[1]) /\ DigestMatches(files[1])
    /\ ~Truthy(SigningField(files[1], "signature"))
    /\ gate.outcomes[1] = "pass"

(* C4 as stated: in every gate run, strict or not, an approved capsule is
   passed only if it carries signature and pubkey and the signature verifies. *)
C4_ApprovedNeedsSignatureAnyMode ==
    \A f \in GateProcessed :
        (IsCapsule(files[f]) /\ IsApproved(files[f]) /\ gate.outcomes[f] = "pass") =>
            SignatureVerifies(files[f])

(* C4 amended: in a strict run (--require-signature-on-approved) an approved
   capsule is passed only if it carries signature and pubkey and the signature
   verifies against its digest. *)
C4_ApprovedNeedsSignatureStrict ==
    \A f \in GateProcessed :
        (gate.strict /\ IsCapsule(files[f]) /\ IsApproved(files[f]) /\ gate.outcomes[f] = "pass") =>
            /\ SignatureVerifies(files[f])
            /\ gate.sigTried[f]

\* A strict run passes an approved capsule whose signature verifies.
C4_Witness ==
    /\ last = "gate" /\ gate.strict
    /\ IsCapsule(files[1])
    /\ IsApproved(files[1]) /\ SignatureVerifies(files[1])
    /\ gate.outcomes[1] = "pass" /\ gate.sigTried[1]

(* C5: once the digest tool has stored the digest, the sign tool has signed
   the capsule and the statement has then been edited to a different text,
   with no digest update and no re-signing since, every gate run, strict or
   not, ends for that capsule at the digest step with "digest mismatch" and
   does not call VerifyKey.verify. *)
C5_EditInvalidates ==
    \A f \in GateProcessed :
        (IsCapsule(files[f]) /\ hist[f].phase = "edited"
                /\ Get(files[f], "statement") # hist[f].stmt) =>
            /\ gate.outcomes[f] = "digest_mismatch"
            /\ ~gate.sigTried[f]
            /\ gate.exit = 1

\* Strict and non-strict runs after such an edit.
C5_Witness ==
    /\ last = "gate" /\ gate.strict
    /\ IsCapsule(files[1])
    /\ hist[1].phase = "edited" /\ Get(files[1], "statement") # hist[1].stmt
    /\ IsApproved(files[1])
    /\ gate.outcomes[1] = "digest_mismatch"

(* C6: an approved capsule whose digest the digest tool stored and which the
   sign tool then signed with key K and --pub of the same key passes the
   strict gate: the sign tool signs the stored digest string, the message the
   gate verifies, and signing leaves the digest check passing. *)
C6_EndToEnd ==
    \A f \in GateProcessed :
        (hist[f].sealed /\ IsCapsule(files[f]) /\ IsApproved(files[f]) /\ gate.strict) =>
            /\ gate.outcomes[f] = "pass"
            /\ gate.sigTried[f]
            /\ gate.exit = 0

C6_Witness ==
    /\ last = "gate" /\ gate.strict
    /\ hist[1].sealed /\ IsCapsule(files[1]) /\ IsApproved(files[1])
    /\ gate.outcomes[1] = "pass" /\ gate.sigTried[1]

----------------------------------------------------------------------------
(* Batch study: the policy gate over a directory of several files *)

\* Number of .yaml files in the directory.
BatchFiles == 2

ApprovedDraft(stmt) ==
    WithProvenance(Capsule(stmt), Map(<< <<"review", Map(<< <<"status", Str("approved")>> >>)>> >>))

\* update_capsule_digest in update mode, the write succeeding
Digested(doc) == update_capsule_digest(doc, FALSE, FALSE).content

\* File contents of the batch: what the author and the tools leave behind.
BatchDocs ==
    { Unparsable,
      Null,
      Lst(<<Str("x")>>),
      WithProvenance(Capsule("A"), Str("someone")),
      Capsule("A"),
      Digested(Capsule("A")),
      Digested(ApprovedDraft("A")),
      SignedElsewhere("A", "k1", "k1"),
      SignedElsewhere("A", "k1", "k2"),
      SetKey(SignedElsewhere("A", "k1", "k1"), "statement", Str("B")) }

InitBatch ==
    /\ files \in [1..BatchFiles -> BatchDocs]
    /\ haveNacl \in BOOLEAN
    /\ last = "init"
    /\ gate = NoGateRun
    /\ dtool = NoDigestRun
    /\ stool = NoSignRun
    /\ hist = <<>>
    /\ StudyIdle

NextBatch ==
    \/ \E strict \in BOOLEAN : RunGate(strict)
    \/ \E verify \in BOOLEAN, wfail \in BOOLEAN : RunDigestTool(verify, wfail)

SpecBatch == InitBatch /\ [][NextBatch]_vars

\* The file fails the gate: it does not parse, is not a capsule document the
\* gate can read, has no matching stored digest, or (strict mode, approved)
\* has no signature that verifies.
FileFails(content, strict, nacl) ==
    IF content.t = "unparsable" \/ ~IsCapsule(content) THEN TRUE
    ELSE \/ ~DigestMatches(content)
         \/ strict /\ IsApproved(content) /\ ~(nacl /\ SignatureVerifies(content))

(* C7: the gate exits 1 iff at least one file of the batch failed and 0
   otherwise; when the summary line is printed, errors is the number of
   failing files, each counted once, and checked is the number of files whose
   YAML parsed. *)
C7_ExitAndSummary ==
    last = "gate" =>
        LET all == 1..Len(files)
            failing == {f \in all : FileFails(files[f], gate.strict, haveNacl)}
            parsed == {f \in all : files[f].t # "unparsable"}
        IN /\ gate.exit = 1 <=> failing # {}
           /\ gate.exit = 0 <=> failing = {}
           /\ gate.summary =>
                 /\ gate.errors = Cardinality(failing)
                 /\ gate.checked = Cardinality(parsed)

\* A batch of one file that does not parse and one with a digest mismatch
\* next to the summary "checked=1 errors=2".
C7_Witness ==
    /\ last = "gate" /\ gate.summary
    /\ Len(files) >= 2
    /\ gate.outcomes[1] = "parse_error" /\ gate.outcomes[2] = "digest_mismatch"
    /\ gate.errors >= 2 /\ gate.exit = 1

----------------------------------------------------------------------------
(* Digest study: one capsule document, edited field by field, its digest
   computed before and after every edit *)

\* Number of edits applied to a document.
MaxEdits == 1

Absent == [t |-> "absent"]
\* The raw state of a top-level key: its value, or Absent.
FieldOf(doc, k) == IF HasKey(doc, k) THEN Lookup(doc, k) ELSE Absent

\* del m[k]
DelKey(m, k) == Map(SelectSeq(m.v, LAMBDA p : p[1] # k))

ScalarCoreKeys == {"id", "version", "domain", "title", "statement"}
CoreKeys == ScalarCoreKeys \cup {"assumptions", "pedagogy"}
OtherKeys == {"provenance", "witnesses", "note"}

KT(k, t) == Map(<< <<"kind", Str(k)>>, <<"text", Str(t)>> >>)
TK(k, t) == Map(<< <<"text", Str(t)>>, <<"kind", Str(k)>> >>)

\* The values an edit can give a key.
FieldValues(k) ==
    IF k \in ScalarCoreKeys THEN {Null, Str("A"), Str("B")}
    ELSE IF k = "assumptions"
    THEN { Null, Str("x"), Lst(<<>>), Lst(<<Str("x")>>),
           Lst(<<Str("x"), Str("y")>>), Lst(<<Str("y"), Str("x")>>),
           Lst(<<KT("a", "b")>>), Lst(<<TK("a", "b")>>) }
    ELSE IF k = "pedagogy"
    THEN { Null, Str("p"), Lst(<<>>), Lst(<<Str("s")>>), Lst(<<Str("r")>>),
           Lst(<<KT("k", "t")>>), Lst(<<TK("k", "t")>>),
           Lst(<<SetKey(KT("k", "t"), "note", Str("n"))>>),
           Lst(<<KT("k", "u")>>), Lst(<<KT("j", "t")>>),
           Lst(<<Map(<< <<"kind", Str("k")>> >>)>>),
           Lst(<<Map(<< <<"kind", Str("k")>>, <<"text", Null>> >>)>>),
           Lst(<<Str("s"), KT("k", "t")>>),
           Lst(<<KT("k", "t"), KT("j", "u")>>), Lst(<<KT("j", "u"), KT("k", "t")>>) }
    ELSE IF k = "provenance"
    THEN { Null, Map(<< <<"author", Str("me")>> >>),
           Map(<< <<"signing", Map(<< <<"digest", Str("old")>> >>)>> >>) }
    ELSE IF k = "witnesses"
    THEN { Lst(<<>>), Lst(<<Map(<< <<"kind", Str("w")>> >>)>>) }
    ELSE { Str("n1"), Str("n2") }

FullDoc ==
    Map(<< <<"id", Str("A")>>, <<"version", Str("A")>>, <<"domain", Str("A")>>,
           <<"title", Str("A")>>, <<"statement", Str("A")>>,
           <<"assumptions", Lst(<<Str("x")>>)>>,
           <<"pedagogy", Lst(<<KT("k", "t")>>)>>,
           <<"provenance", Map(<< <<"author", Str("me")>> >>)>>,
           <<"note", Str("n1")>> >>)

Reversed(m) == Map([i \in 1..Len(m.v) |-> m.v[Len(m.v) + 1 - i]])

BaseDocs ==
    { FullDoc,
      Reversed(FullDoc),
      Digested(FullDoc),
      EmptyMap,
      Map(<< <<"id", Null>>, <<"version", Null>>, <<"domain", Null>>, <<"title", Null>>,
             <<"statement", Null>>, <<"assumptions", Null>>, <<"pedagogy", Null>> >>),
      SetKey(SetKey(FullDoc, "assumptions", Str("x")), "pedagogy", Str("p")),
      SetKey(SetKey(FullDoc, "assumptions", Lst(<<>>)), "pedagogy", Lst(<<>>)),
      SetKey(SetKey(FullDoc, "assumptions", Lst(<<TK("a", "b")>>)), "pedagogy", Lst(<<Str("s")>>)),
      SetKey(FullDoc, "pedagogy",
             Lst(<<SetKey(KT("k", "t"), "note", Str("n")), Map(<< <<"kind", Str("k")>> >>)>>)) }

NoEdit(doc) ==
    [n |-> 0, kind |-> "none", key |-> "", prev |-> doc,
     before |-> calculate_digest(doc), after |-> calculate_digest(doc)]

Edited(kind, k, doc) ==
    [n |-> edit.n + 1, kind |-> kind, key |-> k, prev |-> cap,
     before |-> calculate_digest(cap), after |-> calculate_digest(doc)]

LifecycleIdle ==
    /\ files = <<>>
    /\ haveNacl = TRUE
    /\ last = "init"
    /\ gate = NoGateRun
    /\ dtool = NoDigestRun
    /\ stool = NoSignRun
    /\ hist = <<>>

InitDigest ==
    /\ cap \in BaseDocs
    /\ edit = NoEdit(cap)
    /\ wits = <<>>
    /\ filt = {}
    /\ agg = [ran |-> FALSE]
    /\ LifecycleIdle
    /\ SandboxIdle

DigestFrame == UNCHANGED <<files, haveNacl, last, gate, dtool, stool, hist, wits, filt, agg, environ, tmpfiles, call, runner>>

\* The author gives key k the value v.
SetField(k, v) ==
    /\ edit.n < MaxEdits
    /\ FieldOf(cap, k) # v
    /\ cap' = SetKey(cap, k, v)
    /\ edit' = Edited("set", k, cap')
    /\ DigestFrame

\* The author removes key k.
DelField(k) ==
    /\ edit.n < MaxEdits
    /\ HasKey(cap, k)
    /\ cap' = DelKey(cap, k)
    /\ edit' = Edited("del", k, cap')
    /\ DigestFrame

\* The author moves key k to the end of the document.
MoveKeyLast(k) ==
    /\ edit.n < MaxEdits
    /\ HasKey(cap, k)
    /\ cap.v[Len(cap.v)][1] # k
    /\ cap' = SetKey(DelKey(cap, k), k, Lookup(cap, k))
    /\ edit' = Edited("move", k, cap')
    /\ DigestFrame

\* The digest tool stores the digest in the document.
StoreDigestInCap ==
    /\ edit.n < MaxEdits
    /\ LET r == update_capsule_digest(cap, FALSE, FALSE)
       IN /\ r.status = "updated"
          /\ cap' = r.content
          /\ edit' = Edited("store_digest", "provenance", cap')
    /\ DigestFrame

\* The sign tool stores a signature in the document.
SignCap ==
    /\ edit.n < MaxEdits
    /\ LET r == SignFile(cap, SeedB64("k1"), "demo", PubB64("k1"), TRUE)
       IN /\ r.res = "signed"
          /\ cap' = r.content
          /\ edit' = Edited("sign", "provenance", cap')
    /\ DigestFrame

NextDigest ==
    \/ \E k \in CoreKeys \cup OtherKeys : \E v \in FieldValues(k) : SetField(k, v)
    \/ \E k \in CoreKeys \cup OtherKeys : DelField(k)
    \/ \E k \in CoreKeys \cup OtherKeys : MoveKeyLast(k)
    \/ StoreDigestInCap
    \/ SignCap

SpecDigest == InitDigest /\ [][NextDigest]_vars

----------------------------------------------------------------------------
(* What the claims call the semantic core of a document *)

NoneIfAbsent(x) == IF x.t = "absent" THEN Null ELSE x

\* Equality of values as Python compares them: mappings regardless of key order.
RECURSIVE EqModOrder(_, _)
EqModOrder(x, y) ==
    IF x.t # y.t THEN FALSE
    ELSE IF x.t = "list"
    THEN Len(x.v) = Len(y.v) /\ \A i \in 1..Len(x.v) : EqModOrder(x.v[i], y.v[i])
    ELSE IF x.t = "map"
    THEN KeysOf(x) = KeysOf(y) /\ \A k \in KeysOf(x) : EqModOrder(Lookup(x, k), Lookup(y, k))
    ELSE x = y

\* Two pedagogy values that say the same as written: the same kind and text in
\* every mapping element, the same value everywhere else.
PedagogySameAsWritten(p, q) ==
    IF p.t = "list" /\ q.t = "list"
    THEN /\ Len(p.v) = Len(q.v)
         /\ \A i \in 1..Len(p.v) :
               IF IsMap(p.v[i]) /\ IsMap(q.v[i])
               THEN /\ FieldOf(p.v[i], "kind") = FieldOf(q.v[i], "kind")
                    /\ FieldOf(p.v[i], "text") = FieldOf(q.v[i], "text")
               ELSE p.v[i] = q.v[i]
    ELSE p = q

\* The two documents have the same core fields as written.
SameCoreAsWritten(a, b) ==
    /\ \A k \in ScalarCoreKeys : FieldOf(a, k) = FieldOf(b, k)
    /\ EqModOrder(FieldOf(a, "assumptions"), FieldOf(b, "assumptions"))
    /\ PedagogySameAsWritten(FieldOf(a, "pedagogy"), FieldOf(b, "pedagogy"))

\* The core as section 4.1 extracts it: assumptions as the list it is, else the
\* empty list; pedagogy as the (kind, text) pairs of its mapping elements.
AssumptionsRead(doc) ==
    LET a == FieldOf(doc, "assumptions") IN IF a.t = "list" THEN a ELSE Lst(<<>>)
PedagogyRead(doc) ==
    LET p == FieldOf(doc, "pedagogy")
        maps == IF p.t = "list" THEN SelectSeq(p.v, IsMap) ELSE <<>>
    IN [i \in 1..Len(maps) |-> <<Get(maps[i], "kind"), Get(maps[i], "text")>>]
SameCoreAsRead(a, b) ==
    /\ \A k \in ScalarCoreKeys : NoneIfAbsent(FieldOf(a, k)) = NoneIfAbsent(FieldOf(b, k))
    /\ EqModOrder(AssumptionsRead(a), AssumptionsRead(b))
    /\ PedagogyRead(a) = PedagogyRead(b)

(* C8: two documents with the same semantic core (id, version, domain, title,
   statement, assumptions, kind and text of each pedagogy element) have the
   same digest, whatever the key order of any mapping and whatever the other
   fields hold; storing a digest or a signature leaves the digest unchanged. *)
C8_Determinism ==
    /\ SameCoreAsWritten(edit.prev, cap) => edit.after = edit.before
    /\ edit.kind \in {"store_digest", "sign", "move"} => edit.after = edit.before
    /\ (edit.kind \in {"set", "del"} /\ edit.key \in OtherKeys) => edit.after = edit.before

\* A mapping inside assumptions rewritten with its keys in the other order.
C8_Witness ==
    /\ edit.kind = "set" /\ edit.key = "assumptions"
    /\ FieldOf(edit.prev, "assumptions") = Lst(<<TK("a", "b")>>)
    /\ FieldOf(cap, "assumptions") = Lst(<<KT("a", "b")>>)
    /\ edit.after = edit.before

(* C9 as stated: every change of a core field changes the digest, a change
   between absent, null, empty-list and non-list values of assumptions or
   pedagogy and a change of a non-mapping pedagogy element included; a change
   of any other field does not. *)
C9_EveryCoreChange ==
    edit.kind \in {"set", "del"} =>
        /\ (edit.key \in {"assumptions", "pedagogy"} /\ ~SameCoreAsWritten(edit.prev, cap))
              => edit.after # edit.before
        /\ (edit.key \in ScalarCoreKeys /\ ~SameCoreAsRead(edit.prev, cap))
              => edit.after # edit.before
        /\ edit.key \in OtherKeys => edit.after = edit.before

(* C9 amended: the digest changes exactly when the core as section 4.1
   extracts it changes: id, version, domain, title, statement (absent read as
   null), assumptions (read as the empty list when absent, null or not a
   list), kind and text of the mapping elements of pedagogy (other elements
   dropped, pedagogy read as empty when absent, null or not a list). *)
C9_Sensitivity ==
    edit.n > 0 => (edit.after # edit.before <=> ~SameCoreAsRead(edit.prev, cap))

\* A title edit changes the digest.
C9_Witness ==
    /\ edit.kind = "set" /\ edit.key = "title"
    /\ FieldOf(edit.prev, "title") = Str("A") /\ FieldOf(cap, "title") = Str("B")
    /\ edit.after # edit.before

----------------------------------------------------------------------------
(* Witness runner: run_witnesses.py, run_witness / run_capsule_witnesses *)

\* A runner that also knows ruby.
SupportedLanguagesWithRuby == {"python", "node", "bash", "shell", "ruby"}

\* LANGUAGE_ENTRYPOINTS.keys()
SupportedLanguages == {"python", "node", "bash", "shell"}

\* LANGUAGE_ENTRYPOINTS[language]
LanguageEntrypoint(language) ==
    CASE language = "python" -> "python3"
      [] language = "node" -> "node"
      [] language = "bash" -> "bash"
      [] language = "shell" -> "sh"
      [] OTHER -> language

\* A YAML integer.
Num(n) == [t |-> "int", v |-> n]
IsStr(x) == x.t = "str"
IsNum(x) == x.t = "int"
\* Lists and mappings cannot be dict keys: hashing them raises TypeError.
IsHashable(x) == x.t \notin {"list", "map"}
\* "not x" for the values a witness field can hold
Falsy(x) ==
    CASE x.t = "null" -> TRUE
      [] x.t = "str" -> x.v = ""
      [] x.t = "int" -> x.v = 0
      [] OTHER -> x.v = <<>>

\* timeout_ms when the witness does not declare one (line 91)
DefaultTimeoutMs == 5000
\* returncode reported for a timed-out witness (line 178)
TimeoutReturncode == 124
\* returncode reported with status ERROR (lines 99, 108, 187, 196)
ErrorReturncode == -1

\* The host the runner runs on: the programs on PATH and the directories
\* that exist.
Installed == {"python3", "node", "bash", "sh"}
Directories == {"."}

\* stdout_text.strip() for the outputs of the modelled processes
Strip(text) ==
    CASE text = "  {\"status\": \"SKIP\"}\n" -> "{\"status\": \"SKIP\"}"
      [] text = "ok\n" -> "ok"
      [] OTHER -> text

\* json.loads for the outputs of the modelled processes; Unparsable when it
\* raises.
JsonLoads(text) ==
    CASE text = "{\"status\": \"SKIP\"}" -> Map(<< <<"status", Str("SKIP")>> >>)
      [] text = "{\"status\": \"PASS\"}" -> Map(<< <<"status", Str("PASS")>> >>)
      [] text = "{\"status\": \"skip\"}" -> Map(<< <<"status", Str("skip")>> >>)
      [] text = "{\"result\": \"SKIP\"}" -> Map(<< <<"result", Str("SKIP")>> >>)
      [] text = "[\"SKIP\"]" -> Lst(<<Str("SKIP")>>)
      [] text = "\"SKIP\"" -> Str("SKIP")
      [] OTHER -> Unparsable

\* Lines 153-160: the witness reports SKIP on its stdout.
StdoutSaysSkip(text) ==
    LET maybe == JsonLoads(Strip(text))
    IN IsMap(maybe) /\ Get(maybe, "status") = Str("SKIP")

\* A classification that lets the exit code decide before the SKIP marker.
ClassifyExitCodeFirst(rc, text) ==
    IF rc # 0 THEN "FAIL" ELSE IF StdoutSaysSkip(text) THEN "SKIP" ELSE "PASS"

\* Lines 162-164: the status of a process that ran to completion
Classify(rc, text) ==
    IF StdoutSaysSkip(text) THEN "SKIP" ELSE IF rc = 0 THEN "PASS" ELSE "FAIL"

\* A timeout that falls back to ten seconds.
TimeoutMsLongDefault(witness) == GetOr(witness, "timeout_ms", Num(10000))

\* Line 91: witness.get("timeout_ms", 5000)
TimeoutMs(witness) == GetOr(witness, "timeout_ms", Num(DefaultTimeoutMs))

\* str(value) for the values of an env map
PyStr(x) ==
    CASE x.t = "str" -> x.v
      [] x.t = "int" -> ToString(x.v)
      [] x.t = "null" -> "None"
      [] OTHER -> "<object>"

\* Lines 130-132: the declared env map, stringified
DeclaredEnv(env_config) ==
    {<<env_config.v[i][1], PyStr(env_config.v[i][2])>> : i \in 1..Len(env_config.v)}

\* Lines 130-134 and 148: the environment the child sees. safe_env holds the
\* declared entries, then update(os.environ) adds every variable of the
\* runner's process and overwrites declared ones of the same name; an empty
\* safe_env is passed as env=None, which is the runner's environment again.
SafeEnv(env_config, os_environ) ==
    {p \in DeclaredEnv(env_config) : \A q \in os_environ : q[1] # p[1]} \cup os_environ

\* What a call of run_witness returns and what it did: whether it raised,
\* whether a temp file was created and whether it is still there, whether a
\* process was spawned, how that process ended, which environment it saw and
\* how many processes it started are still running at the return.
WitnessResult(name, status, returncode, created, left, spawned, child, env, orphans) ==
    [raised |-> FALSE, name |-> name, status |-> status, returncode |-> returncode,
     tmp_created |-> created, tmp_left |-> left,
     spawned |-> spawned, child |-> child, env |-> env, orphans |-> orphans]

\* The call raises before the try block is entered: nothing was created.
WitnessRaises(name) ==
    [raised |-> TRUE, name |-> name, status |-> "RAISED", returncode |-> ErrorReturncode,
     tmp_created |-> FALSE, tmp_left |-> FALSE,
     spawned |-> FALSE, child |-> "none", env |-> {}, orphans |-> 0]

\* Lines 201-207: the temp file is left when code_file was never bound
\* ('code_file' in locals() is false), removed otherwise.
CleanupLeaves(code_file_bound) == ~code_file_bound

\* run_witness(witness, capsule_file). w.witness is the witness mapping of the
\* capsule; w.tmp says how the temp directory behaves ("ok", "nocreate": the
\* file cannot be created, "nowrite": the write fails, e.g. disk full); w.proc
\* is what the process does once spawned: it ends after duration ms with exit
\* code rc having printed stdout, and it has started forks processes of its
\* own that hold none of its pipes and do not end by themselves.
run_witness(w) ==
    LET witness == w.witness
        name == GetOr(witness, "name", Str("unnamed"))
        language == Get(witness, "language")
        code == GetOr(witness, "code", Str(""))
        declared == Get(witness, "entrypoint")
        env_config == GetOr(witness, "env", EmptyMap)
        args == GetOr(witness, "args", Lst(<<>>))
        workdir == GetOr(witness, "workdir", Str("."))
        timeout_ms == TimeoutMs(witness)
        stdin_data == GetOr(witness, "stdin", Str(""))
        Error(created, left) ==
            WitnessResult(name, "ERROR", ErrorReturncode, created, left, FALSE, "none", {}, 0)
    IN  \* line 87: LANGUAGE_ENTRYPOINTS.get(language, language) hashes language
        IF Falsy(declared) /\ ~IsHashable(language) THEN WitnessRaises(name)
        \* line 95: "not language" short-circuits; "in" hashes language
        ELSE IF Falsy(language) THEN Error(FALSE, FALSE)
        ELSE IF ~IsHashable(language) THEN WitnessRaises(name)
        ELSE IF ~(IsStr(language) /\ language.v \in SupportedLanguages) THEN Error(FALSE, FALSE)
        \* line 104
        ELSE IF Falsy(code) THEN Error(FALSE, FALSE)
        \* lines 119-124: NamedTemporaryFile(delete=False)
        ELSE IF w.tmp = "nocreate" THEN Error(FALSE, FALSE)
        \* line 125: f.write(code) raises before code_file is bound
        ELSE IF ~IsStr(code) \/ w.tmp = "nowrite" THEN Error(TRUE, CleanupLeaves(FALSE))
        \* lines 131-150: every malformed value raises before the process exists
        ELSE IF \/ ~IsMap(env_config)
                \/ ~IsList(args)
                \/ ~IsStr(workdir)
                \/ ~IsNum(timeout_ms)
                \/ (~Falsy(stdin_data) /\ ~IsStr(stdin_data))
             THEN Error(TRUE, CleanupLeaves(TRUE))
        ELSE LET entrypoint == IF Falsy(declared) THEN LanguageEntrypoint(language.v)
                               ELSE PyStr(declared)
                 env == SafeEnv(env_config, environ)
             IN \* lines 183-190: FileNotFoundError from Popen
                IF entrypoint \notin Installed \/ workdir.v \notin Directories
                THEN Error(TRUE, CleanupLeaves(TRUE))
                \* lines 174-181: subprocess.run kills the child and raises.
                \* The child is started in the runner's session and process
                \* group (lines 144-151 pass neither start_new_session nor a
                \* group), and the kill is sent to the child's pid alone.
                ELSE IF w.proc.duration > timeout_ms.v
                THEN WitnessResult(name, "TIMEOUT", TimeoutReturncode,
                                   TRUE, CleanupLeaves(TRUE), TRUE, "killed", env,
                                   w.proc.forks)
                \* lines 153-172
                ELSE WitnessResult(name, Classify(w.proc.rc, w.proc.stdout), w.proc.rc,
                                   TRUE, CleanupLeaves(TRUE), TRUE, "exited", env,
                                   w.proc.forks)

\* An aggregation that takes a timeout for a witness that did not fail.
AggregateTimeoutTolerant(statuses) ==
    IF \E i \in 1..Len(statuses) : statuses[i] \in {"FAIL", "ERROR"} THEN "RED"
    ELSE IF \A i \in 1..Len(statuses) : statuses[i] = "SKIP" THEN "SKIP"
    ELSE "GREEN"

\* Lines 238-245: the verdict from the list of statuses
Aggregate(statuses) ==
    IF \E i \in 1..Len(statuses) : statuses[i] \in {"FAIL", "ERROR", "TIMEOUT"} THEN "RED"
    ELSE IF \A i \in 1..Len(statuses) : statuses[i] = "SKIP" THEN "SKIP"
    ELSE "GREEN"

\* A loop that stops at the first witness that did not pass.
run_capsule_witnessesStopsAtFailure(witnesses, witness_filter) ==
    LET selected == IF witness_filter # {}
                    THEN SelectSeq(witnesses,
                                   LAMBDA w : Get(w.witness, "name") \in witness_filter)
                    ELSE witnesses
    IN IF selected = <<>>
       THEN [ran |-> TRUE, raised |-> FALSE, status |-> "SKIP", witness_results |-> <<>>]
       ELSE LET all == [i \in 1..Len(selected) |-> run_witness(selected[i])]
                bad == {i \in 1..Len(all) : all[i].status \in {"FAIL", "ERROR", "TIMEOUT"}}
                stop == IF bad = {} THEN Len(all)
                        ELSE CHOOSE i \in bad : \A j \in bad : i <= j
                results == SubSeq(all, 1, stop)
                statuses == [i \in 1..Len(results) |-> results[i].status]
            IN IF \E i \in 1..Len(results) : results[i].raised
               THEN [ran |-> TRUE, raised |-> TRUE, status |-> "RAISED",
                     witness_results |-> <<>>]
               ELSE [ran |-> TRUE, raised |-> FALSE, status |-> Aggregate(statuses),
                     witness_results |-> results]

\* run_capsule_witnesses(capsule, witness_filter): an empty or absent filter
\* selects every witness. An exception of run_witness is not caught: it ends
\* the call (raised), with the results of the witnesses before it lost.
run_capsule_witnesses(witnesses, witness_filter) ==
    LET selected == IF witness_filter # {}
                    THEN SelectSeq(witnesses,
                                   LAMBDA w : Get(w.witness, "name") \in witness_filter)
                    ELSE witnesses
    IN IF selected = <<>>
       THEN [ran |-> TRUE, raised |-> FALSE, status |-> "SKIP", witness_results |-> <<>>]
       ELSE LET results == [i \in 1..Len(selected) |-> run_witness(selected[i])]
                statuses == [i \in 1..Len(results) |-> results[i].status]
            IN IF \E i \in 1..Len(results) : results[i].raised
               THEN [ran |-> TRUE, raised |-> TRUE, status |-> "RAISED",
                     witness_results |-> <<>>]
               ELSE [ran |-> TRUE, raised |-> FALSE, status |-> Aggregate(statuses),
                     witness_results |-> results]

----------------------------------------------------------------------------
(* Aggregation study: one capsule, its witnesses, one call of
   run_capsule_witnesses *)

\* Number of witnesses of the capsule.
MaxWitnesses == 3

WitnessNames == <<"w1", "w2", "w3", "w4", "w5">>

\* A process that ends at once with exit code rc; skip: it prints the SKIP
\* marker.
Exits(rc, skip) ==
    [duration |-> 10, rc |-> rc,
     stdout |-> IF skip THEN "{\"status\": \"SKIP\"}" ELSE "ok\n", forks |-> 0]
\* A process that does not end.
Hangs == [duration |-> 600000, rc |-> 0, stdout |-> "", forks |-> 0]

\* The witnesses of the study, by configuration and behaviour.
WitnessKinds ==
    { [language |-> "python", code |-> "print(1)", entrypoint |-> "", proc |-> Exits(0, FALSE)],
      [language |-> "python", code |-> "exit(1)", entrypoint |-> "", proc |-> Exits(1, FALSE)],
      [language |-> "bash", code |-> "echo skip", entrypoint |-> "", proc |-> Exits(0, TRUE)],
      [language |-> "node", code |-> "skip;exit(3)", entrypoint |-> "", proc |-> Exits(3, TRUE)],
      [language |-> "shell", code |-> "sleep", entrypoint |-> "", proc |-> Hangs],
      [language |-> "node", code |-> "x", entrypoint |-> "nodejs18", proc |-> Exits(0, FALSE)],
      [language |-> "ruby", code |-> "puts 1", entrypoint |-> "", proc |-> Exits(0, FALSE)],
      [language |-> "python", code |-> "", entrypoint |-> "", proc |-> Exits(0, FALSE)] }

Named(k, i) ==
    [witness |-> Map(<< <<"name", Str(WitnessNames[i])>>,
                        <<"language", Str(k.language)>>,
                        <<"code", Str(k.code)>>,
                        <<"entrypoint", Str(k.entrypoint)>> >>),
     tmp |-> "ok", proc |-> k.proc]

InitAgg ==
    /\ \E n \in 0..MaxWitnesses : \E ks \in [1..n -> WitnessKinds] :
           wits = [i \in 1..n |-> Named(ks[i], i)]
    /\ filt \in SUBSET {Str(WitnessNames[1]), Str(WitnessNames[2])}
    /\ agg = [ran |-> FALSE]
    /\ cap = Null
    /\ edit = [n |-> 0]
    /\ LifecycleIdle
    /\ SandboxIdle

RunCapsuleWitnesses ==
    /\ agg' = run_capsule_witnesses(wits, filt)
    /\ UNCHANGED <<files, haveNacl, last, gate, dtool, stool, hist, cap, edit, wits, filt,
                 environ, tmpfiles, call, runner>>

NextAgg == RunCapsuleWitnesses

SpecAgg == InitAgg /\ [][NextAgg]_vars

StatusesOf(results) == [i \in 1..Len(results) |-> results[i].status]
CountOf(statuses, st) == Cardinality({i \in 1..Len(statuses) : statuses[i] = st})

(* C10: the capsule verdict is a function of how many witnesses ended in each
   status: SKIP when no witness was run; RED iff at least one status is FAIL,
   ERROR or TIMEOUT; otherwise SKIP when every status is SKIP; otherwise GREEN
   (at least one PASS, no failure). *)
C10_Verdict ==
    agg.ran =>
        LET st == StatusesOf(agg.witness_results)
            bad == CountOf(st, "FAIL") + CountOf(st, "ERROR") + CountOf(st, "TIMEOUT")
            pass == CountOf(st, "PASS")
            skip == CountOf(st, "SKIP")
        IN /\ bad + pass + skip = Len(st)
           /\ agg.status \in {"RED", "GREEN", "SKIP"}
           /\ agg.status = "RED" <=> bad > 0
           /\ agg.status = "SKIP" <=> (bad = 0 /\ pass = 0)
           /\ agg.status = "GREEN" <=> (bad = 0 /\ pass > 0)
           /\ Len(st) = 0 => agg.status = "SKIP"

\* A capsule whose only failure is a timeout, next to a passing witness.
C10_Witness ==
    /\ agg.ran
    /\ agg.status = "RED"
    /\ \E i \in 1..Len(agg.witness_results) : agg.witness_results[i].status = "PASS"
    /\ \E i \in 1..Len(agg.witness_results) : agg.witness_results[i].status = "TIMEOUT"
    /\ \A i \in 1..Len(agg.witness_results) :
           agg.witness_results[i].status \in {"PASS", "TIMEOUT", "SKIP"}

----------------------------------------------------------------------------
(* Sandbox study: calls of run_witness, one after the other, on one host *)

\* Number of calls of run_witness in a behaviour.
MaxRuns == 2

\* A witness mapping from its entries; an Absent entry is a key left out.
MkWitness(fields) == Map(SelectSeq(fields, LAMBDA p : p[2].t # "absent"))

LanguageValues ==
    {Absent, Null, Str(""), Str("ruby"), Str("python"), Str("bash"), Lst(<<Str("python")>>)}
CodeValues == {Absent, Null, Str(""), Str("print(1)"), Num(42)}

\* Witnesses that differ in what run_witness validates: language, code,
\* code_ref, entrypoint.
ValidationWitnesses ==
    {MkWitness(<< <<"name", Str("w1")>>, <<"language", l>>, <<"code", c>>,
                  <<"code_ref", re[1]>>, <<"entrypoint", re[2]>> >>) :
        l \in LanguageValues, c \in CodeValues,
        re \in {<<Absent, Absent>>, <<Str("w.py"), Absent>>,
                <<Absent, Str("python3")>>, <<Absent, Str("nope")>>}}

EnvValues ==
    {Absent, EmptyMap, Map(<< <<"MODE", Str("capsule")>>, <<"N", Num(1)>> >>),
     Null, Lst(<<Str("MODE=capsule")>>)}
TimeoutValues == {Absent, Num(1000), Num(10000), Str("5000")}

\* Well-formed language and code, with the other entries varied.
ConfiguredWitness(env, timeout_ms, args, workdir, stdin) ==
    MkWitness(<< <<"name", Str("w2")>>, <<"language", Str("python")>>,
                 <<"code", Str("print(1)")>>, <<"env", env>>,
                 <<"timeout_ms", timeout_ms>>, <<"args", args>>,
                 <<"workdir", workdir>>, <<"stdin", stdin>> >>)

ConfigWitnesses ==
    {ConfiguredWitness(e, t, Absent, Absent, Absent) : e \in EnvValues, t \in TimeoutValues}
    \cup {ConfiguredWitness(Absent, Absent, a, Absent, Absent) :
            a \in {Lst(<<Str("-v")>>), Str("-v")}}
    \cup {ConfiguredWitness(Absent, Absent, Absent, d, Absent) :
            d \in {Str("."), Str("nodir"), Null}}
    \cup {ConfiguredWitness(Absent, Absent, Absent, Absent, i) :
            i \in {Str("in"), Num(5), Num(0)}}

\* What a witness process prints.
StdoutTexts ==
    {"", "ok\n", "{\"status\": \"SKIP\"}", "  {\"status\": \"SKIP\"}\n",
     "{\"status\": \"PASS\"}", "{\"status\": \"skip\"}", "{\"result\": \"SKIP\"}",
     "[\"SKIP\"]", "\"SKIP\""}
\* Exit codes; a negative one is a death by signal.
ExitCodes == {0, 1, 3, -9}
\* How long a witness process runs, in ms.
Durations == {10, 3000, 7000}

\* A process that starts a background process of its own ("sleep 60 &").
Forking == [duration : Durations, rc : {0}, stdout : {""}, forks : {1}]

Processes ==
    [duration : Durations, rc : ExitCodes, stdout : StdoutTexts, forks : {0}]
    \cup Forking

\* The calls of the study: a witness, the temp directory and the process.
SandboxCalls ==
    {[witness |-> v, tmp |-> "ok", proc |-> Exits(0, FALSE)] : v \in ValidationWitnesses}
    \cup {[witness |-> c, tmp |-> t, proc |-> p] :
            c \in ConfigWitnesses, t \in {"ok", "nocreate", "nowrite"},
            p \in {Exits(0, FALSE), Exits(1, FALSE)}}
    \cup {[witness |-> ConfiguredWitness(Absent, t, Absent, Absent, Absent),
           tmp |-> "ok", proc |-> p] :
            t \in {Absent, Num(1000), Num(10000)}, p \in Processes}

\* The environment of the runner's process.
HostEnvirons == { {}, {<<"HOME", "/root">>, <<"MODE", "host">>} }

InitSandbox ==
    /\ environ \in HostEnvirons
    /\ tmpfiles = 0
    /\ call = [n |-> 0]
    /\ runner = [ran |-> FALSE]
    /\ wits = <<>>
    /\ filt = {}
    /\ agg = [ran |-> FALSE]
    /\ cap = Null
    /\ edit = [n |-> 0]
    /\ LifecycleIdle

\* One call of run_witness.
RunWitness(w) ==
    /\ call.n < MaxRuns
    /\ LET r == run_witness(w)
       IN /\ call' = [n |-> call.n + 1, w |-> w, r |-> r]
          /\ tmpfiles' = tmpfiles + (IF r.tmp_left THEN 1 ELSE 0)
    /\ UNCHANGED <<files, haveNacl, last, gate, dtool, stool, hist, cap, edit,
                   wits, filt, agg, environ, runner>>

NextSandbox == \E w \in SandboxCalls : RunWitness(w)

SpecSandbox == InitSandbox /\ [][NextSandbox]_vars

\* Outputs that are a JSON object whose status is SKIP.
SkipMarkerOutputs == {"{\"status\": \"SKIP\"}", "  {\"status\": \"SKIP\"}\n"}

(* C11: for a witness whose process ran to completion within its timeout, the
   status is SKIP when stdout is a JSON object whose status field is SKIP,
   whatever the exit code; otherwise PASS for exit code 0 and FAIL for any
   other; the reported returncode is the exit code of the process. *)
C11_Completed ==
    (call.n > 0 /\ call.r.child = "exited") =>
        LET p == call.w.proc
        IN /\ call.r.returncode = p.rc
           /\ call.r.status = IF p.stdout \in SkipMarkerOutputs THEN "SKIP"
                              ELSE IF p.rc = 0 THEN "PASS" ELSE "FAIL"

\* A witness that exits 3 and reports SKIP, and one that exits nonzero without
\* the marker.
C11_Witness ==
    /\ call.n > 0 /\ call.r.child = "exited"
    /\ call.w.proc.rc = 3 /\ call.w.proc.stdout \in SkipMarkerOutputs
    /\ call.r.status = "SKIP" /\ call.r.returncode = 3

\* The timeout of a witness in ms, as declared or 5000.
DeclaredTimeout(witness) ==
    IF HasKey(witness, "timeout_ms") THEN Lookup(witness, "timeout_ms").v ELSE 5000

(* C12: a witness whose process is still running when timeout_ms (5000 ms
   when not declared) has elapsed is reported with status TIMEOUT and
   returncode 124, and its process has been killed when run_witness returns,
   whatever the process printed or would have returned. *)
C12_Timeout ==
    (call.n > 0 /\ call.r.spawned
        /\ call.w.proc.duration > DeclaredTimeout(call.w.witness)) =>
        /\ call.r.status = "TIMEOUT"
        /\ call.r.returncode = 124
        /\ call.r.child = "killed"

\* A witness without timeout_ms whose process would print the SKIP marker and
\* exit 0 after seven seconds.
C12_Witness ==
    /\ call.n > 0 /\ call.r.spawned
    /\ ~HasKey(call.w.witness, "timeout_ms")
    /\ call.w.proc.duration = 7000 /\ call.w.proc.rc = 0
    /\ call.w.proc.stdout \in SkipMarkerOutputs
    /\ call.r.status = "TIMEOUT" /\ call.r.child = "killed"

\* The language entry is missing or names a language outside the supported set.
LanguageUnsupported(witness) ==
    LET l == FieldOf(witness, "language")
    IN \/ l.t \in {"absent", "null"}
       \/ l.t = "str" /\ l.v \notin {"python", "node", "bash", "shell"}

\* The code entry is absent or empty.
CodeMissing(witness) == FieldOf(witness, "code") \in {Absent, Null, Str("")}

(* C13: a witness whose language entry is missing or is a name outside
   {python, node, bash, shell}, or whose code is empty or absent (also when it
   declares code_ref), gets status ERROR at once: no process is spawned and no
   temp file is created, whatever entrypoint it declares. Stated for language
   entries that are absent, null or a string. *)
C13_Validation ==
    (call.n > 0
        /\ FieldOf(call.w.witness, "language").t \in {"absent", "null", "str"}
        /\ (LanguageUnsupported(call.w.witness) \/ CodeMissing(call.w.witness))) =>
        /\ ~call.r.raised
        /\ call.r.status = "ERROR"
        /\ ~call.r.spawned
        /\ ~call.r.tmp_created

\* A ruby witness with code and a declared, installed entrypoint.
C13_Witness ==
    /\ call.n > 0
    /\ FieldOf(call.w.witness, "language") = Str("ruby")
    /\ FieldOf(call.w.witness, "entrypoint") = Str("python3")
    /\ FieldOf(call.w.witness, "code") = Str("print(1)")
    /\ call.r.status = "ERROR" /\ ~call.r.spawned /\ ~call.r.tmp_created

(* C14: run_witness never raises to its caller: whenever no process could be
   run for the witness (interpreter not found, temp file not written, any
   exception while preparing), it returns a record with status ERROR, which
   makes its capsule RED. *)
C14_NeverRaises ==
    call.n > 0 =>
        /\ ~call.r.raised
        /\ ~call.r.spawned =>
              (call.r.status = "ERROR" /\ Aggregate(<<call.r.status>>) = "RED")

(* C15: no temp file that run_witness created exists once it has returned,
   on every exit path; after any sequence of calls the number of leftover
   witness temp files is zero. *)
C15_NoLeftover ==
    /\ tmpfiles = 0
    /\ call.n > 0 => ~call.r.tmp_left

(* C16: the environment of a witness process holds exactly the entries of the
   witness's declared env map, stringified; no variable of the runner's own
   environment is in it. *)
C16_Allowlist ==
    (call.n > 0 /\ call.r.spawned) =>
        /\ call.r.env = DeclaredEnv(GetOr(call.w.witness, "env", EmptyMap))
        /\ \A q \in environ : q \notin call.r.env

----------------------------------------------------------------------------
(* Witness runner command: run_witnesses.py, main *)

\* fnmatch.fnmatch(name, patt) on POSIX for patterns of literal characters,
\* "*" and "?"; names and patterns are sequences of characters.
RECURSIVE FnMatch(_, _)
FnMatch(name, patt) ==
    IF patt = <<>> THEN name = <<>>
    ELSE IF Head(patt) = "*"
         THEN FnMatch(name, Tail(patt)) \/ (name # <<>> /\ FnMatch(Tail(name), patt))
         ELSE /\ name # <<>>
              /\ Head(patt) = "?" \/ Head(patt) = Head(name)
              /\ FnMatch(Tail(name), Tail(patt))

\* A capsule as load_capsules returns it: error marks the entry of a file that
\* did not parse ("__error__"); dir, stem and ext make up "__file__".
\* os.path.basename(fpath)
BaseName(c) == c.stem \o c.ext
\* os.path.abspath(fpath), relative to the runner's working directory
FilePath(c) == c.dir \o <<"/">> \o BaseName(c)

\* Lines 361-370: some pattern matches the base name or the stem, or is the
\* path of the file
MatchFile(c, globs) ==
    \E patt \in globs :
        \/ FnMatch(BaseName(c), patt)
        \/ FnMatch(c.stem, patt)
        \/ patt = FilePath(c)

\* A selection that wants the id and the file to match.
MatchesBoth(c, ids, globs) ==
    (ids # {} /\ c.id \in ids) /\ (globs # {} /\ MatchFile(c, globs))

\* Lines 360, 373: (ids and match_id) or (globs and match_file)
Matches(c, ids, globs) ==
    (ids # {} /\ c.id \in ids) \/ (globs # {} /\ MatchFile(c, globs))

\* Lines 348-376: the capsules the run is limited to
SelectCapsules(capsules, ids, globs) ==
    IF ids # {} \/ globs # {}
    THEN SelectSeq(capsules, LAMBDA c : ~c.error /\ Matches(c, ids, globs))
    ELSE capsules

\* An exit code that takes a skipped capsule for a failure.
RunnerExitGreenOnly(results) ==
    IF \E i \in 1..Len(results) : results[i].status # "GREEN" THEN 1 ELSE 0

\* Lines 413-416
RunnerExit(results) ==
    IF \E i \in 1..Len(results) : results[i].status = "RED" THEN 1 ELSE 0

RECURSIVE SumLen(_)
SumLen(results) ==
    IF results = <<>> THEN 0
    ELSE Len(Head(results).witness_results) + SumLen(Tail(results))

\* main. witness_names is what --witness collected; main parses it and does
\* not hand it to run_capsule_witnesses (line 394). The outcome: the exit
\* code, the result list printed, the number of run_witness calls made, and
\* whether the run ended in a traceback.
main(path_exists, capsules, ids, globs, witness_names) ==
    LET Stop(code) == [exit |-> code, crashed |-> FALSE, results |-> <<>>, executed |-> 0]
        selected == SelectCapsules(capsules, ids, globs)
        runnable == SelectSeq(selected, LAMBDA c : ~c.error)
        outs == [i \in 1..Len(runnable) |-> run_capsule_witnesses(runnable[i].witnesses, {})]
        results == [i \in 1..Len(runnable) |->
                      [capsule |-> IF runnable[i].id = Absent THEN Str("unknown")
                                   ELSE runnable[i].id,
                       status |-> outs[i].status,
                       witness_results |-> outs[i].witness_results]]
    IN IF ~path_exists THEN Stop(2)
       ELSE IF selected = <<>> THEN Stop(2)
       ELSE IF \E i \in 1..Len(outs) : outs[i].raised
       THEN [exit |-> 1, crashed |-> TRUE, results |-> <<>>, executed |-> 0]
       ELSE [exit |-> RunnerExit(results), crashed |-> FALSE, results |-> results,
             executed |-> SumLen(results)]

----------------------------------------------------------------------------
(* Runner study: a directory of capsules and one run of the command *)

\* Number of capsule files in the directory.
MaxCapsules == 2

\* The file names of the directory, in sorted order.
CapsuleStems == << <<"a">>, <<"a", "b">>, <<"b">>, <<"b", "a">> >>

Passing == [language |-> "python", code |-> "print(1)", entrypoint |-> "", proc |-> Exits(0, FALSE)]
Failing == [language |-> "python", code |-> "exit(1)", entrypoint |-> "", proc |-> Exits(1, FALSE)]
Skipping == [language |-> "bash", code |-> "echo skip", entrypoint |-> "", proc |-> Exits(0, TRUE)]
Hanging == [language |-> "shell", code |-> "sleep", entrypoint |-> "", proc |-> Hangs]

\* The witness lists of the capsules of the study.
WitnessLists ==
    { <<>>,
      <<Named(Passing, 1), Named(Failing, 2)>>,
      <<Named(Skipping, 1), Named(Passing, 2)>>,
      <<Named(Hanging, 1), Named(Failing, 2), Named(Passing, 3)>> }

CapsuleIds == {Str("x"), Str("y"), Absent}

\* The capsules a file at position i of the directory can load as.
LoadedCapsules(i) ==
    {[error |-> FALSE, id |-> id, dir |-> <<"c">>, stem |-> CapsuleStems[i],
      ext |-> <<".", "y">>, witnesses |-> ws] : id \in CapsuleIds, ws \in WitnessLists}
    \cup {[error |-> TRUE, id |-> Absent, dir |-> <<"c">>, stem |-> CapsuleStems[i],
           ext |-> <<".", "y">>, witnesses |-> <<>>]}

\* The witnesses list of a capsule document.
RECURSIVE WitnessMaps(_)
WitnessMaps(ws) ==
    IF ws = <<>> THEN <<>> ELSE <<Head(ws).witness>> \o WitnessMaps(Tail(ws))

\* The file a loaded capsule was read from (lines 59-66), with its digest
\* stored; a file that did not parse has no document.
CapsuleFile(c) ==
    IF c.error THEN Unparsable
    ELSE LET base == Map(<< <<"statement", Str("A")>>,
                            <<"witnesses", Lst(WitnessMaps(c.witnesses))>> >>)
         IN Digested(IF c.id = Absent THEN base ELSE SetKey(base, "id", c.id))

\* What --capsule, --capsule-file and --witness can hold.
IdArgs == { {}, {Str("x")}, {Str("x"), Str("y")} }
GlobArgs == { {}, {<<"a", "*">>}, {<<"b">>}, {<<"c", "/", "a", ".", "y">>}, {<<"?", ".", "y">>} }
WitnessArgs == { {}, {Str("w1")} }

InitRunner ==
    /\ \E n \in 0..MaxCapsules : \E cs \in [1..n -> UNION {LoadedCapsules(i) : i \in 1..n}] :
          /\ \A i \in 1..n : cs[i] \in LoadedCapsules(i)
          /\ \E ids \in IdArgs, globs \in GlobArgs, names \in WitnessArgs, exists \in BOOLEAN :
                /\ exists \/ (n = 0 /\ ids = {} /\ globs = {} /\ names = {})
                /\ runner = [ran |-> FALSE, path_exists |-> exists, capsules |-> cs,
                             ids |-> ids, globs |-> globs, witness_names |-> names]
          /\ files = [i \in 1..n |-> CapsuleFile(cs[i])]
    /\ environ = {}
    /\ tmpfiles = 0
    /\ call = [n |-> 0]
    /\ wits = <<>>
    /\ filt = {}
    /\ agg = [ran |-> FALSE]
    /\ cap = Null
    /\ edit = [n |-> 0]
    /\ haveNacl = TRUE
    /\ last = "init"
    /\ gate = NoGateRun
    /\ dtool = NoDigestRun
    /\ stool = NoSignRun
    /\ hist = <<>>

\* A runner that records each capsule's verdict in the capsule file.
RunMainWritesBack ==
    LET out == main(runner.path_exists, runner.capsules, runner.ids,
                    runner.globs, runner.witness_names)
    IN /\ ~runner.ran
       /\ runner' = [ran |-> TRUE, path_exists |-> runner.path_exists,
                     capsules |-> runner.capsules, ids |-> runner.ids,
                     globs |-> runner.globs, witness_names |-> runner.witness_names,
                     out |-> out]
       /\ files' = [i \in 1..Len(files) |->
                      IF IsMap(files[i]) /\ out.results # <<>>
                      THEN SetKey(files[i], "status", Str("run"))
                      ELSE files[i]]
       /\ UNCHANGED <<haveNacl, last, gate, dtool, stool, hist, cap, edit,
                      wits, filt, agg, environ, tmpfiles, call>>

\* One run of the command.
RunMain ==
    /\ ~runner.ran
    /\ runner' = [ran |-> TRUE, path_exists |-> runner.path_exists,
                  capsules |-> runner.capsules, ids |-> runner.ids,
                  globs |-> runner.globs, witness_names |-> runner.witness_names,
                  out |-> main(runner.path_exists, runner.capsules, runner.ids,
                               runner.globs, runner.witness_names)]
    /\ UNCHANGED <<files, haveNacl, last, gate, dtool, stool, hist, cap, edit,
                   wits, filt, agg, environ, tmpfiles, call>>

NextRunner == RunMain

SpecRunner == InitRunner /\ [][NextRunner]_vars

(* C17: the runner exits 1 exactly when at least one capsule verdict of the
   run is RED; a run that reaches the capsules and has only GREEN and SKIP
   verdicts exits 0. *)
C17_Exit ==
    runner.ran =>
        LET red == \E i \in 1..Len(runner.out.results) :
                       runner.out.results[i].status = "RED"
        IN /\ runner.out.exit = 1 <=> red
           /\ (runner.out.exit # 2 /\ ~red) => runner.out.exit = 0
           /\ runner.out.exit = 2 => runner.out.results = <<>>

\* A run with a skipped and a green capsule, and one with a red capsule.
C17_Witness ==
    /\ runner.ran /\ runner.out.exit = 0
    /\ Len(runner.out.results) = 2
    /\ runner.out.results[1].status = "SKIP"
    /\ runner.out.results[2].status = "GREEN"

(* C18: when --witness names are given, only the witnesses with one of those
   names are executed and each capsule's witness_results holds exactly their
   results. *)
C18_WitnessFilter ==
    (runner.ran /\ runner.witness_names # {} /\ runner.out.exit # 2) =>
        \A i \in 1..Len(runner.out.results) :
            \A j \in 1..Len(runner.out.results[i].witness_results) :
                runner.out.results[i].witness_results[j].name \in runner.witness_names

\* The capsules of a list next to the results of a list, position by position.
RECURSIVE Paired(_, _)
Paired(cs, rs) ==
    IF cs = <<>> THEN <<>>
    ELSE <<[c |-> Head(cs), r |-> Head(rs)]>> \o Paired(Tail(cs), Tail(rs))

RECURSIVE ResultsOf(_)
ResultsOf(ps) == IF ps = <<>> THEN <<>> ELSE <<Head(ps).r>> \o ResultsOf(Tail(ps))

\* The result list of the run over the same directory without --capsule and
\* --capsule-file, each result next to the capsule it belongs to.
UnfilteredResults ==
    Paired(SelectSeq(runner.capsules, LAMBDA c : ~c.error),
           main(TRUE, runner.capsules, {}, {}, runner.witness_names).results)

(* C19: with --capsule and/or --capsule-file given, the result list is the
   sub-list of the unfiltered run's results for the capsules whose id is one
   of the given ids or whose file matches one of the given patterns or paths,
   in the same order, with the same statuses and verdicts; when no capsule
   matches, the runner exits 2 and executes no witness. *)
C19_CapsuleFilter ==
    (runner.ran /\ runner.path_exists /\ (runner.ids # {} \/ runner.globs # {})) =>
        LET want == SelectSeq(UnfilteredResults,
                              LAMBDA p : \/ p.c.id \in runner.ids
                                         \/ MatchFile(p.c, runner.globs))
        IN IF want = <<>>
           THEN runner.out.exit = 2 /\ runner.out.executed = 0 /\ runner.out.results = <<>>
           ELSE /\ runner.out.results = ResultsOf(want)
                /\ runner.out.exit \in {0, 1}

\* The second of two capsules is selected by its file name alone, the first
\* by nothing, and the second is RED.
C19_Witness ==
    /\ runner.ran
    /\ Len(runner.capsules) = 2
    /\ runner.ids = {Str("x")} /\ runner.globs = {<<"a", "*">>}
    /\ ~runner.capsules[1].error /\ runner.capsules[1].id = Str("y")
    /\ ~runner.capsules[2].error /\ runner.capsules[2].id = Absent
    /\ Len(UnfilteredResults) = 2
    /\ Len(runner.out.results) = 2
    /\ runner.out.results[2].status = "RED"

----------------------------------------------------------------------------
(* Digest tool exit code, over the lifecycle study *)

(* C20: in verify mode the digest tool exits 0 exactly when every capsule
   file's stored digest equals its recomputed digest, and 1 when some file has
   a different digest, no stored digest, or could not be loaded; in update
   mode (for runs that end with the summary) it exits 1 exactly when some
   file ended in error, and 0 otherwise. *)
C20_DigestExit ==
    dtool.ran =>
        IF dtool.verify
        THEN /\ dtool.exit \in {0, 1}
             /\ dtool.exit = 0 <=>
                    \A f \in 1..Len(files) : IsMap(files[f]) /\ DigestMatches(files[f])
        ELSE ~dtool.crashed =>
                /\ dtool.exit \in {0, 1}
                /\ dtool.exit = 1 <=>
                       \E i \in 1..Len(dtool.results) : dtool.results[i].status = "error"

\* The status of a mapping document by its stored digest.
StoredDigestStatus(doc) ==
    LET d == SigningField(doc, "digest")
    IN IF d = Str(calculate_digest(doc)) THEN "ok"
       ELSE IF d = Null THEN "missing"
       ELSE "mismatch"

(* C21: a --verify run of the digest tool leaves every file as it was and
   reports updated = false for every file it gives a status; the status is
   ok when the stored digest equals the recomputed one, missing when no
   digest is stored, mismatch otherwise, error for a file that is no
   mapping. *)
C21_VerifyReadOnly ==
    [][(dtool'.ran /\ dtool'.verify /\ last' = "digest") =>
          /\ files' = files
          /\ \A i \in 1..Len(dtool'.results) :
                dtool'.results[i].status # "crash" =>
                    /\ ~dtool'.results[i].updated
                    /\ dtool'.results[i].status =
                          IF IsMap(files[i]) THEN StoredDigestStatus(files[i]) ELSE "error"
      ]_vars

\* A verify run over a capsule whose statement was edited after the digest
\* was stored.
C21_Witness ==
    /\ dtool.ran /\ dtool.verify
    /\ Len(dtool.results) = 1
    /\ dtool.results[1].status = "mismatch"
    /\ ~dtool.results[1].updated
    /\ IsMap(files[1]) /\ StoredDigestStatus(files[1]) = "mismatch"

\* A file the digest tool cannot digest: it does not load, is no mapping, or
\* has a provenance or signing entry that is neither a mapping nor null.
MalformedForDigest(content) ==
    \/ ~IsMap(content)
    \/ LET prov == Get(content, "provenance")
       IN \/ prov.t \notin {"map", "null"}
          \/ IsMap(prov) /\ Get(prov, "signing").t \notin {"map", "null"}

(* C22: for a file that does not load, is not a mapping, or whose provenance
   or signing is not a mapping, the digest tool records an error with
   updated = false instead of raising, stores no digest, leaves the file
   unchanged, and still processes the remaining files of the directory. *)
C22_MalformedIsolated ==
    [][(dtool'.ran /\ last' = "digest") =>
          /\ ~dtool'.crashed
          /\ Len(dtool'.results) = Len(files)
          /\ \A i \in 1..Len(files) :
                MalformedForDigest(files[i]) =>
                    /\ dtool'.results[i].status = "error"
                    /\ ~dtool'.results[i].updated
                    /\ files'[i] = files[i]
      ]_vars

\* The keys under which a run's output would sit in a capsule document.
RunOutputKeys == {"status", "stdout", "stderr", "witness_results", "returncode"}

(* C23: a run of the witness runner leaves every capsule file as it was,
   whatever the filters and the witness outcomes; no status or output of a
   witness appears in a capsule document, and the policy gate's outcome for
   each file is the same after the run as before it. *)
C23_RunnerReadOnly ==
    [][(~runner.ran /\ runner'.ran) =>
          /\ files' = files
          /\ \A i \in 1..Len(files') :
                /\ IsMap(files'[i]) => KeysOf(files'[i]) \cap RunOutputKeys = {}
                /\ \A strict \in BOOLEAN :
                      GateFile(files'[i], strict, haveNacl').outcome
                          = GateFile(files[i], strict, haveNacl).outcome
      ]_vars

\* A run in which a witness timed out and another failed, over a capsule
\* file the gate passes.
C23_Witness ==
    /\ runner.ran /\ runner.out.results # <<>>
    /\ \E j \in 1..Len(runner.out.results[1].witness_results) :
          runner.out.results[1].witness_results[j].status = "TIMEOUT"
    /\ \E j \in 1..Len(runner.out.results[1].witness_results) :
          runner.out.results[1].witness_results[j].status = "FAIL"
    /\ \E i \in 1..Len(files) :
          /\ IsMap(files[i]) /\ DigestMatches(files[i])
          /\ GateFile(files[i], TRUE, haveNacl).outcome = "pass"

(* C24: in a gate run one file's failure is recorded and isolated: whether a
   file does not parse, is no mapping, has a non-mapping provenance, signing
   or review, a digest mismatch or a bad signature, every file of the
   directory is still checked, each failing file is counted, and the summary
   line is printed. *)
C24_GateIsolation ==
    last = "gate" =>
        /\ ~gate.crashed
        /\ gate.summary
        /\ Len(gate.outcomes) = Len(files)
        /\ \A i \in 1..Len(gate.outcomes) : gate.outcomes[i] \in GateErrorOutcomes \cup {"pass"}

(* C25: the runner's exit code is nonzero exactly when some item of the run
   failed, a capsule file that could not be parsed counting as a failed item:
   a run over a directory with an unparsable capsule file never exits 0, and
   a run that reached the capsules and had no failing item exits 0. *)
C25_ExitIffFailure ==
    (runner.ran /\ runner.out.exit # 2) =>
        LET red == \E i \in 1..Len(runner.out.results) :
                       runner.out.results[i].status = "RED"
            unparsed == \E i \in 1..Len(runner.capsules) : runner.capsules[i].error
        IN runner.out.exit # 0 <=> (red \/ unparsed)

(* C26: when run_witness returns TIMEOUT, the witness's process has been
   killed and no process it started is still running. *)
C26_TreeKilled ==
    (call.n > 0 /\ call.r.status = "TIMEOUT") =>
        /\ call.r.child = "killed"
        /\ call.r.orphans = 0

\* The capsules of the directory that loaded and that the run is limited to,
\* in load order.
LoadedAndSelected ==
    SelectSeq(runner.capsules,
              LAMBDA c : /\ ~c.error
                         /\ \/ runner.ids = {} /\ runner.globs = {}
                            \/ c.id \in runner.ids
                            \/ MatchFile(c, runner.globs))

(* C27: the runner's result list has one entry per loaded capsule of the run,
   in load order; each entry's witness_results has one result per witness of
   that capsule, in the order the capsule lists them, each with that
   witness's name: a witness that failed, timed out or errored does not keep
   a later one from running. *)
C27_OrderAndCompleteness ==
    (runner.ran /\ runner.out.exit # 2) =>
        LET loaded == LoadedAndSelected
            results == runner.out.results
        IN /\ Len(results) = Len(loaded)
           /\ \A i \in 1..Len(results) :
                 /\ results[i].capsule = IF loaded[i].id = Absent THEN Str("unknown")
                                         ELSE loaded[i].id
                 /\ Len(results[i].witness_results) = Len(loaded[i].witnesses)
                 /\ \A j \in 1..Len(results[i].witness_results) :
                       results[i].witness_results[j].name
                           = Get(loaded[i].witnesses[j].witness, "name")

\* Two capsules, y before x; the first witness of y times out, the second
\* fails and the third still runs and passes.
C27_Witness ==
    /\ runner.ran /\ Len(runner.out.results) = 2
    /\ runner.out.results[1].capsule = Str("y")
    /\ runner.out.results[2].capsule = Str("x")
    /\ Len(runner.out.results[1].witness_results) = 3
    /\ runner.out.results[1].witness_results[1].status = "TIMEOUT"
    /\ runner.out.results[1].witness_results[2].status = "FAIL"
    /\ runner.out.results[1].witness_results[3].status = "PASS"
    /\ runner.out.results[1].witness_results[3].name = Str("w3")

\* Mapping a holds every entry of mapping b but the one under key k.
SameBut(a, b, k) ==
    /\ KeysOf(a) \ {k} = KeysOf(b) \ {k}
    /\ \A x \in KeysOf(a) \ {k} : Get(a, x) = Get(b, x)

\* Document new is document old with nothing changed but provenance.signing.digest.
OnlyDigestChanged(old, new) ==
    LET po == OrEmptyMap(Get(old, "provenance"))
        pn == OrEmptyMap(Get(new, "provenance"))
        so == OrEmptyMap(Get(po, "signing"))
        sn == OrEmptyMap(Get(pn, "signing"))
    IN /\ SameBut(old, new, "provenance")
       /\ IsMap(pn) /\ SameBut(po, pn, "signing")
       /\ IsMap(sn) /\ SameBut(so, sn, "digest")

\* The files an update run of the digest tool processed to the end: mappings
\* whose record is ok or updated.
DigestedBy(fs, results) ==
    {i \in 1..Len(results) : IsMap(fs[i]) /\ results[i].status \in {"ok", "updated"}}

(* C28: after an update run of the digest tool, every mapping capsule file it
   processed without a write error holds a stored digest equal to the digest
   recomputed from its core; a file whose stored digest was missing or
   different is reported updated, with nothing else in the document changed;
   a run that follows at once, in either mode, reports each such file ok
   and does not write it, and exits 0 when the directory holds no other
   file; the
   gate's digest step passes for each of them. *)
C28_UpdateIdempotent ==
    [][(last' = "digest" /\ dtool'.ran /\ ~dtool'.verify) =>
          LET done == DigestedBy(files, dtool'.results)
          IN /\ \A i \in done :
                   /\ DigestMatches(files'[i])
                   /\ dtool'.results[i].status = "updated"
                          <=> StoredDigestStatus(files[i]) \in {"missing", "mismatch"}
                   /\ dtool'.results[i].updated <=> dtool'.results[i].status = "updated"
                   /\ OnlyDigestChanged(files[i], files'[i])
                   /\ GateFile(files'[i], FALSE, haveNacl').outcome = "pass"
             /\ \A i \in done, verify \in BOOLEAN :
                   LET again == update_capsule_digest(files'[i], verify, FALSE)
                   IN /\ again.status = "ok" /\ ~again.updated
                      /\ again.content = files'[i]
             /\ done = 1..Len(files) =>
                   \A verify \in BOOLEAN :
                       LET rerun == DigestTool(files', verify, FALSE)
                       IN rerun.exit = 0 /\ ~rerun.crashed /\ rerun.files = files'
      ]_vars

\* An update run over a file without a stored digest and a file whose stored
\* digest is current: the first is updated, the second is ok.
C28_Witness ==
    /\ last = "digest" /\ dtool.ran /\ ~dtool.verify /\ ~dtool.crashed
    /\ \E i, j \in 1..Len(dtool.results) :
          /\ dtool.results[i].status = "updated" /\ dtool.results[i].updated
          /\ IsMap(files[i]) /\ DigestMatches(files[i])
          /\ dtool.results[j].status = "ok"
    /\ dtool.exit = 0

\* A capsule as the claim takes it: a mapping whose pedagogy is a list of
\* mappings.
PedagogyOfMappings(c) ==
    /\ IsMap(c)
    /\ IsList(Get(c, "pedagogy"))
    /\ \A i \in 1..Len(Get(c, "pedagogy").v) : IsMap(Get(c, "pedagogy").v[i])

(* C29: for every capsule whose pedagogy is a list of mappings, the verifier
   computes the digest the digest tool and the policy gate compute, so a
   capsule that holds the digest the digest tool stores is not reported as a
   digest mismatch by the verifier. *)
C29_SameDigestEverywhere ==
    PedagogyOfMappings(cap) =>
        /\ ~norm(cap).raised
        /\ norm(cap).digest = calculate_digest(cap)
        /\ norm(cap).digest = norm_capsule_for_digest(cap)
        /\ DigestMatches(cap) => ~VerifyReportsMismatch(cap)

\* Mappings a and b agree on every entry whose key is not in ks.
SameButKeys(a, b, ks) ==
    /\ KeysOf(a) \ ks = KeysOf(b) \ ks
    /\ \A x \in KeysOf(a) \ ks : Get(a, x) = Get(b, x)

\* Document new is document old with nothing changed but the entries of
\* provenance.signing the sign tool may set: signature, method, key_id and,
\* with a --pub argument, pubkey.
OnlySignatureChanged(old, new, pub) ==
    LET po == OrEmptyMap(Get(old, "provenance"))
        pn == OrEmptyMap(Get(new, "provenance"))
        so == OrEmptyMap(Get(po, "signing"))
        sn == OrEmptyMap(Get(pn, "signing"))
        may == {"signature", "method", "key_id"} \cup (IF pub # "" THEN {"pubkey"} ELSE {})
    IN /\ SameButKeys(old, new, {"provenance"})
       /\ SameButKeys(po, pn, {"signing"})
       /\ SameButKeys(so, sn, may)
       /\ Get(sn, "digest") = Get(so, "digest")
       /\ calculate_digest(new) = calculate_digest(old)
       /\ ReviewStatusOf(new) = ReviewStatusOf(old)

(* C30: the sign tool changes nothing in a capsule file but the signature,
   method and key_id entries of provenance.signing, and pubkey only when
   --pub is given; the stored digest, the core, the review status and every
   other field stay, and so does the outcome of the gate's digest step. A
   file it does not sign, a capsule without stored digest among them, is not
   written, and such a capsule is reported skipped. *)
C30_SignFrame ==
    [][\A key \in SignKeyArgs, pub \in SignPubArgs :
          RunSignTool(key, pub) =>
              \A i \in 1..Len(files) :
                  /\ IF i <= Len(stool'.results) /\ stool'.results[i] = "signed"
                     THEN /\ OnlySignatureChanged(files[i], files'[i], pub)
                          /\ GateFile(files'[i], FALSE, haveNacl').outcome
                                 = GateFile(files[i], FALSE, haveNacl).outcome
                     ELSE files'[i] = files[i]
                  /\ (IsCapsule(files[i]) /\ IsMap(files[i])
                          /\ SigningField(files[i], "digest") = Null
                          /\ i <= Len(stool'.results))
                         => stool'.results[i] = "skip"
      ]_vars

\* A signed capsule file: it holds a signature and a pubkey, and its stored
\* digest is still the digest of its core.
C30_Witness ==
    /\ last = "sign" /\ stool.ran /\ Len(stool.results) = 1
    /\ stool.results[1] = "signed"
    /\ Truthy(SigningField(files[1], "signature"))
    /\ Truthy(SigningField(files[1], "pubkey"))
    /\ SigningField(files[1], "key_id") = Str("demo")
    /\ DigestMatches(files[1])
====
